---------------------------- MODULE Spec2Model ----------------------------
(***************************************************************************)
(* Model of the filtering log (FilteringLogApi), the filter store          *)
(* (FiltersStorage) and the hybrid key-value storage (HybridStorage) of    *)
(* the AdGuard browser extension.                                          *)
(*                                                                         *)
(* Several specifications share the variables below; each one exercises    *)
(* one part of the program and leaves the other variables alone:           *)
(*   SpecEvents  event store of the filtering log                          *)
(*   SpecTabs    tab bookkeeping and synchronizeOpenTabs                   *)
(*   SpecCache   rule-text cache against the filter store                  *)
(*   SpecHybrid  backend selection of HybridStorage                        *)
(*   SpecStore   FiltersStorage over the hybrid storage                    *)
(*   SpecLimits  rule-limit accounting of ConfigurationResultService       *)
(*   SpecViewers viewer lifecycle and the engine's debug flags             *)
(*   SpecEngine  Engine calls and the configuration result they store      *)
(***************************************************************************)
EXTENDS Integers, Sequences, FiniteSets, TLC

(***************************************************************************)
(* Bounds of the model.                                                    *)
(***************************************************************************)
\* Capacity of one tab's event sequence.  The program's value is 1000
\* (FilteringLogApi.REQUESTS_SIZE_PER_TAB); the model scales it down so that
\* sequences overflow within the explored state space.
REQUESTS_SIZE_PER_TAB == 2

\* Largest number of simultaneously opened filtering log pages explored.
MaxPages == 2

(***************************************************************************)
(* Program constants.                                                      *)
(***************************************************************************)
\* Reserved id of the synthetic background tab (@adguard/tswebextension).
BACKGROUND_TAB_ID == -1

\* Ids of ordinary browser tabs.
TabIds == {1, 2}

AllTabIds == TabIds \cup {BACKGROUND_TAB_ID}

\* Marker of a key absent from a Map (Map.get returns undefined).
NoTab == [tabId |-> 0]

\* Marker of a filter absent from the cache or from the filter store.
NoFilterData == [absent |-> TRUE]

\* Ids of filter lists.
FilterIds == {1, 2}

\* Title of the background tab: translator.getMessage('background_tab_title').
BackgroundTitle == "background"

VARIABLES
    openedFilteringLogsPages,   \* FilteringLogApi.openedFilteringLogsPages
    preserveLogEnabled,         \* FilteringLogApi.preserveLogEnabled
    tabsInfoMap,                \* FilteringLogApi.tabsInfoMap
    filtersCache,               \* FilteringLogApi.filtersCache
    debugScriptlets,            \* engine flag set by Engine.api.setDebugScriptlets
    collectHitStats,            \* engine flag set by Engine.api.setCollectHitStats
    disableCollectHits,         \* settingsStorage.get(SettingOption.DisableCollectHits)
    notified,                   \* listeners.notifyListeners calls of the last operation
    lastOp,                     \* the operation that ran last and its arguments
    browserTabs,                \* the browser's open tabs, as TabsApi.getAll() returns them
    syncSnapshot,               \* synchronizeOpenTabs suspended on getAll: the list it will get
    filterStore,                \* filter data as FiltersStorage.getAllFilterData returns it
    lookups,                    \* getRuleText calls suspended on getAllFilterData
    lastRuleText,               \* result of the getRuleText call that completed last
    hybrid,                     \* HybridStorage instance: storage field, probes, backends, calls
    records,                    \* content of the backend behind hybridStorage
    conversionMaps,             \* FiltersStorage.conversionMaps
    storeCalls,                 \* FiltersStorage calls suspended on the storage
    storeResult,                \* outcome of the FiltersStorage call that completed last
    configurationResult,        \* the result held by configurationResultApi
    rulesLimits,                \* outcome of the onGetRulesLimits call that completed last
    engine                      \* Engine: the tswebextension's state and the calls in progress

logVars == <<openedFilteringLogsPages, preserveLogEnabled, tabsInfoMap, filtersCache,
             debugScriptlets, collectHitStats, disableCollectHits, notified, lastOp>>
tabVars == <<browserTabs, syncSnapshot>>
cacheVars == <<filterStore, lookups, lastRuleText>>
storeVars == <<hybrid, records, conversionMaps, storeCalls, storeResult>>
limitVars == <<configurationResult, rulesLimits, engine>>
vars == <<logVars, tabVars, cacheVars, storeVars, limitVars>>

(***************************************************************************)
(* Filtering events.                                                       *)
(***************************************************************************)
\* The fields of FilteringLogEvent the filtering log itself reads or that
\* updateEventData changes in the explored runs.
MkEvent(id, domain, name, value, status) ==
    [eventId |-> id, frameDomain |-> domain, cookieName |-> name,
     cookieValue |-> value, statusCode |-> status]

\* Placeholder of an absent event argument of an operation.
NoEvent == [eventId |-> ""]

\* A notification handed to listeners.notifyListeners: its type and the tab
\* it carries.
Note(type, tabId) == [type |-> type, tabId |-> tabId]

\* The record of the operation that ran last: its name, the tab and the event
\* (or partial event) it was given, and the number of events the tab held
\* (for onCloseFilteringLogPage: the number of viewers counted) when it was
\* called.
OpOn(name, tabId, data, size) ==
    [op |-> name, tabId |-> tabId, data |-> data, size |-> size]

Op(name, tabId, data) == OpOn(name, tabId, data, 0)

\* isExtensionUrl of @adguard/tswebextension on the url kinds explored.
isExtensionUrl(url) == url = "ext"

isOpen == openedFilteringLogsPages > 0

isPreserveLogEnabled == preserveLogEnabled

getFilteringInfoByTabId(tabId) ==
    IF tabId \in DOMAIN tabsInfoMap THEN tabsInfoMap[tabId] ELSE NoTab

\* Variant: strict FIFO eviction, splice(0, 1).
Splice01(s) ==
    IF Len(s) < 1 THEN s ELSE Tail(s)

\* Array.prototype.splice(1, 1): drops the element at (0-based) index 1.
Splice11(s) ==
    IF Len(s) < 2 THEN s ELSE <<s[1]>> \o SubSeq(s, 3, Len(s))

\* Variant: the last event with the eventId instead of the first.
FindEventLast(events, eventId) ==
    IF \E i \in 1..Len(events) : events[i].eventId = eventId
    THEN CHOOSE i \in 1..Len(events) :
            /\ events[i].eventId = eventId
            /\ \A j \in (i + 1)..Len(events) : events[j].eventId # eventId
    ELSE 0

\* Array.prototype.find on eventId: 1-based index of the first match, 0 if none.
FindEvent(events, eventId) ==
    IF \E i \in 1..Len(events) : events[i].eventId = eventId
    THEN CHOOSE i \in 1..Len(events) :
            /\ events[i].eventId = eventId
            /\ \A j \in 1..(i - 1) : events[j].eventId # eventId
    ELSE 0

\* Object.assign(event, data): the fields of data overwrite those of event.
Assign(event, data) ==
    [f \in DOMAIN event |-> IF f \in DOMAIN data THEN data[f] ELSE event[f]]

(***************************************************************************)
(* Tab bookkeeping, as transformers of st = [tabs, notes]: the tab map and *)
(* the notifications fired so far.  updateTabInfo and synchronizeOpenTabs  *)
(* call the others, so they compose.                                       *)
(***************************************************************************)
\* Variant: createTabInfo without the check of isSyntheticTab.
createTabInfoSynthetic(st, tab, isSyntheticTab) ==
    IF tab.id = 0 \/ tab.url = "" \/ tab.title = ""
    THEN st
    ELSE IF tab.id = BACKGROUND_TAB_ID
    THEN st
    ELSE LET tabInfo == [tabId |-> tab.id,
                         title |-> tab.title,
                         isExtensionTab |-> isExtensionUrl(tab.url),
                         filteringEvents |-> <<>>]
         IN [tabs |-> [st.tabs EXCEPT ![tab.id] = tabInfo],
             notes |-> Append(st.notes, Note("TabAdded", tab.id))]

createTabInfo(st, tab, isSyntheticTab) ==
    IF tab.id = 0 \/ tab.url = "" \/ tab.title = ""
    THEN st
    ELSE IF tab.id = BACKGROUND_TAB_ID \/ isSyntheticTab
    THEN st
    ELSE LET tabInfo == [tabId |-> tab.id,
                         title |-> tab.title,
                         isExtensionTab |-> isExtensionUrl(tab.url),
                         filteringEvents |-> <<>>]
         IN [tabs |-> [st.tabs EXCEPT ![tab.id] = tabInfo],
             notes |-> Append(st.notes, Note("TabAdded", tab.id))]

\* Variant: updateTabInfo replaces the entry of a tracked tab by a fresh one.
updateTabInfoReset(st, tab) ==
    IF tab.id = 0 \/ tab.url = "" \/ tab.title = ""
    THEN st
    ELSE IF tab.id = BACKGROUND_TAB_ID
    THEN st
    ELSE IF st.tabs[tab.id] = NoTab
    THEN createTabInfo(st, tab, FALSE)
    ELSE [tabs |-> [st.tabs EXCEPT ![tab.id] =
                       [tabId |-> tab.id,
                        title |-> tab.title,
                        isExtensionTab |-> isExtensionUrl(tab.url),
                        filteringEvents |-> <<>>]],
          notes |-> Append(st.notes, Note("TabUpdate", tab.id))]

updateTabInfo(st, tab) ==
    IF tab.id = 0 \/ tab.url = "" \/ tab.title = ""
    THEN st
    ELSE IF tab.id = BACKGROUND_TAB_ID
    THEN st
    ELSE IF st.tabs[tab.id] = NoTab
    THEN createTabInfo(st, tab, FALSE)
    ELSE [tabs |-> [st.tabs EXCEPT ![tab.id].title = tab.title,
                                   ![tab.id].isExtensionTab = isExtensionUrl(tab.url)],
          notes |-> Append(st.notes, Note("TabUpdate", tab.id))]

\* listeners.notifyListeners(listeners.TabClose, tabInfo), called while tabs
\* is the tab map: the note tells whether the listeners find the entry of the
\* tab still registered.
TabCloseNote(tabs, id) ==
    [type |-> "TabClose", tabId |-> id, registered |-> tabs[id] # NoTab]

\* Variant: removeTabInfo without the background-tab guard.
removeTabInfoAny(st, id) ==
    [tabs |-> IF id \in DOMAIN st.tabs
              THEN [st.tabs EXCEPT ![id] = NoTab]
              ELSE st.tabs,
     notes |-> IF id \in DOMAIN st.tabs /\ st.tabs[id] # NoTab
               THEN Append(st.notes, TabCloseNote(st.tabs, id))
               ELSE st.notes]

\* Variant: removeTabInfo deletes the entry first and notifies afterwards.
removeTabInfoDeleteFirst(st, id) ==
    IF id = BACKGROUND_TAB_ID
    THEN st
    ELSE LET deleted == IF id \in DOMAIN st.tabs
                        THEN [st.tabs EXCEPT ![id] = NoTab]
                        ELSE st.tabs
         IN [tabs |-> deleted,
             notes |-> IF id \in DOMAIN st.tabs /\ st.tabs[id] # NoTab
                       THEN Append(st.notes, TabCloseNote(deleted, id))
                       ELSE st.notes]

removeTabInfo(st, id) ==
    IF id = BACKGROUND_TAB_ID
    THEN st
    ELSE [tabs |-> IF id \in DOMAIN st.tabs
                   THEN [st.tabs EXCEPT ![id] = NoTab]
                   ELSE st.tabs,
          notes |-> IF id \in DOMAIN st.tabs /\ st.tabs[id] # NoTab
                    THEN Append(st.notes, TabCloseNote(st.tabs, id))
                    ELSE st.notes]

(***************************************************************************)
(* Initial state: the state after the module's singletons are constructed. *)
(***************************************************************************)
InitTabsInfoMap ==
    [t \in AllTabIds |->
        IF t = BACKGROUND_TAB_ID
        THEN [tabId |-> BACKGROUND_TAB_ID,
              title |-> BackgroundTitle,
              isExtensionTab |-> FALSE,
              filteringEvents |-> <<>>]
        ELSE NoTab]

(***************************************************************************)
(* Operations of FilteringLogApi that run to completion without awaiting.  *)
(***************************************************************************)
\* purgeFiltersCache(filterIds?): hasIds tells whether filterIds was given.
purgeFiltersCache(cache, hasIds, filterIds) ==
    IF hasIds
    THEN [f \in DOMAIN cache |-> IF f \in filterIds THEN NoFilterData ELSE cache[f]]
    ELSE [f \in DOMAIN cache |-> NoFilterData]

setPreserveLogState(enabled) ==
    /\ preserveLogEnabled' = enabled
    /\ notified' = <<>>
    /\ lastOp' = Op("setPreserveLogState", 0, NoEvent)
    /\ UNCHANGED <<openedFilteringLogsPages, tabsInfoMap, filtersCache, debugScriptlets,
                   collectHitStats, disableCollectHits>>
    /\ UNCHANGED <<tabVars, cacheVars, storeVars, limitVars>>

\* try { Engine.api.set...(value) } catch (e) { logger.error(...) }: the
\* flag takes the value when the engine accepts the call and stays as it is
\* when the engine throws.
EngineSet(flag, value, accepted) == IF accepted THEN value ELSE flag

\* onOpenFilteringLogPage(); debugAccepted and hitsAccepted tell whether the
\* engine accepts setDebugScriptlets(true) and setCollectHitStats(true).
onOpenFilteringLogPageEngine(debugAccepted, hitsAccepted) ==
    /\ openedFilteringLogsPages < MaxPages
    /\ openedFilteringLogsPages' = openedFilteringLogsPages + 1
    /\ debugScriptlets' = EngineSet(debugScriptlets, TRUE, debugAccepted)
    /\ collectHitStats' = EngineSet(collectHitStats, TRUE, hitsAccepted)
    /\ notified' = <<>>
    /\ lastOp' = Op("onOpenFilteringLogPage", 0, NoEvent)
    /\ UNCHANGED <<preserveLogEnabled, tabsInfoMap, filtersCache, disableCollectHits>>
    /\ UNCHANGED <<tabVars, cacheVars, storeVars, limitVars>>

\* onOpenFilteringLogPage() with an engine that accepts both calls.
onOpenFilteringLogPage == onOpenFilteringLogPageEngine(TRUE, TRUE)

\* Variant: the counter is decremented without the clamp at 0.
MaxZeroUnclamped(n) == n

\* Math.max(n - 1, 0)
MaxZero(n) == IF n > 0 THEN n ELSE 0

\* onCloseFilteringLogPage(); debugAccepted and hitsAccepted tell whether the
\* engine accepts setDebugScriptlets(false) and setCollectHitStats(false).
onCloseFilteringLogPageEngine(debugAccepted, hitsAccepted) ==
    LET pages == MaxZero(openedFilteringLogsPages - 1) IN
    /\ openedFilteringLogsPages' = pages
    /\ IF pages = 0
       THEN /\ filtersCache' = purgeFiltersCache(filtersCache, FALSE, {})
            /\ tabsInfoMap' =
                 [t \in DOMAIN tabsInfoMap |->
                    IF tabsInfoMap[t] = NoTab
                    THEN NoTab
                    ELSE [tabsInfoMap[t] EXCEPT !.filteringEvents = <<>>]]
            /\ debugScriptlets' = EngineSet(debugScriptlets, FALSE, debugAccepted)
            /\ collectHitStats' = IF disableCollectHits
                                   THEN EngineSet(collectHitStats, FALSE, hitsAccepted)
                                   ELSE collectHitStats
       ELSE UNCHANGED <<filtersCache, tabsInfoMap, debugScriptlets, collectHitStats>>
    /\ notified' = <<>>
    /\ lastOp' = OpOn("onCloseFilteringLogPage", 0, NoEvent, openedFilteringLogsPages)
    /\ UNCHANGED <<preserveLogEnabled, disableCollectHits>>
    /\ UNCHANGED <<tabVars, cacheVars, storeVars, limitVars>>

\* onCloseFilteringLogPage() with an engine that accepts both calls.
onCloseFilteringLogPage == onCloseFilteringLogPageEngine(TRUE, TRUE)

\* Variant: clearEventsByTabId without the ignorePreserveLog override.
clearEventsByTabIdPreserve(tabId, ignorePreserveLog) ==
    LET tabInfo == getFilteringInfoByTabId(tabId)
        preserveLog == preserveLogEnabled
    IN
    /\ IF tabInfo # NoTab /\ ~preserveLog
       THEN /\ tabsInfoMap' = [tabsInfoMap EXCEPT ![tabId].filteringEvents = <<>>]
            /\ notified' = <<Note("TabReset", tabId)>>
       ELSE /\ UNCHANGED tabsInfoMap
            /\ notified' = <<>>
    /\ lastOp' = OpOn(IF ignorePreserveLog THEN "clearEventsByTabId:ignore"
                                           ELSE "clearEventsByTabId", tabId, NoEvent,
                      IF tabInfo = NoTab THEN 0 ELSE Len(tabInfo.filteringEvents))
    /\ UNCHANGED <<openedFilteringLogsPages, preserveLogEnabled, filtersCache,
                   debugScriptlets, collectHitStats, disableCollectHits>>
    /\ UNCHANGED <<tabVars, cacheVars, storeVars, limitVars>>

clearEventsByTabId(tabId, ignorePreserveLog) ==
    LET tabInfo == getFilteringInfoByTabId(tabId)
        preserveLog == IF ignorePreserveLog THEN FALSE ELSE preserveLogEnabled
    IN
    /\ IF tabInfo # NoTab /\ ~preserveLog
       THEN /\ tabsInfoMap' = [tabsInfoMap EXCEPT ![tabId].filteringEvents = <<>>]
            /\ notified' = <<Note("TabReset", tabId)>>
       ELSE /\ UNCHANGED tabsInfoMap
            /\ notified' = <<>>
    /\ lastOp' = OpOn(IF ignorePreserveLog THEN "clearEventsByTabId:ignore"
                                           ELSE "clearEventsByTabId", tabId, NoEvent,
                      IF tabInfo = NoTab THEN 0 ELSE Len(tabInfo.filteringEvents))
    /\ UNCHANGED <<openedFilteringLogsPages, preserveLogEnabled, filtersCache,
                   debugScriptlets, collectHitStats, disableCollectHits>>
    /\ UNCHANGED <<tabVars, cacheVars, storeVars, limitVars>>

\* Variant: addEventData without the isOpen() check.
addEventDataAlways(tabId, data) ==
    LET tabInfo == getFilteringInfoByTabId(tabId) IN
    /\ IF tabInfo = NoTab
       THEN /\ UNCHANGED tabsInfoMap
            /\ notified' = <<>>
       ELSE LET pushed == Append(tabInfo.filteringEvents, data)
                events == IF Len(pushed) > REQUESTS_SIZE_PER_TAB
                          THEN Splice11(pushed)
                          ELSE pushed
            IN /\ tabsInfoMap' = [tabsInfoMap EXCEPT ![tabId].filteringEvents = events]
               /\ notified' = <<Note("LogEventAdded", tabId)>>
    /\ lastOp' = OpOn("addEventData", tabId, data,
                     IF tabInfo = NoTab THEN 0 ELSE Len(tabInfo.filteringEvents))
    /\ UNCHANGED <<openedFilteringLogsPages, preserveLogEnabled, filtersCache,
                   debugScriptlets, collectHitStats, disableCollectHits>>
    /\ UNCHANGED <<tabVars, cacheVars, storeVars, limitVars>>

\* Variant: addEventData puts the event in front (unshift instead of push).
addEventDataUnshift(tabId, data) ==
    LET tabInfo == getFilteringInfoByTabId(tabId) IN
    /\ IF tabInfo = NoTab \/ ~isOpen
       THEN /\ UNCHANGED tabsInfoMap
            /\ notified' = <<>>
       ELSE LET pushed == <<data>> \o tabInfo.filteringEvents
                events == IF Len(pushed) > REQUESTS_SIZE_PER_TAB
                          THEN Splice11(pushed)
                          ELSE pushed
            IN /\ tabsInfoMap' = [tabsInfoMap EXCEPT ![tabId].filteringEvents = events]
               /\ notified' = <<Note("LogEventAdded", tabId)>>
    /\ lastOp' = OpOn("addEventData", tabId, data,
                     IF tabInfo = NoTab THEN 0 ELSE Len(tabInfo.filteringEvents))
    /\ UNCHANGED <<openedFilteringLogsPages, preserveLogEnabled, filtersCache,
                   debugScriptlets, collectHitStats, disableCollectHits>>
    /\ UNCHANGED <<tabVars, cacheVars, storeVars, limitVars>>

addEventData(tabId, data) ==
    LET tabInfo == getFilteringInfoByTabId(tabId) IN
    /\ IF tabInfo = NoTab \/ ~isOpen
       THEN /\ UNCHANGED tabsInfoMap
            /\ notified' = <<>>
       ELSE LET pushed == Append(tabInfo.filteringEvents, data)
                events == IF Len(pushed) > REQUESTS_SIZE_PER_TAB
                          THEN Splice11(pushed)
                          ELSE pushed
            IN /\ tabsInfoMap' = [tabsInfoMap EXCEPT ![tabId].filteringEvents = events]
               /\ notified' = <<Note("LogEventAdded", tabId)>>
    /\ lastOp' = OpOn("addEventData", tabId, data,
                     IF tabInfo = NoTab THEN 0 ELSE Len(tabInfo.filteringEvents))
    /\ UNCHANGED <<openedFilteringLogsPages, preserveLogEnabled, filtersCache,
                   debugScriptlets, collectHitStats, disableCollectHits>>
    /\ UNCHANGED <<tabVars, cacheVars, storeVars, limitVars>>

updateEventData(tabId, eventId, data) ==
    LET tabInfo == getFilteringInfoByTabId(tabId) IN
    /\ IF tabInfo = NoTab \/ ~isOpen
       THEN /\ UNCHANGED tabsInfoMap
            /\ notified' = <<>>
       ELSE LET i == FindEvent(tabInfo.filteringEvents, eventId) IN
            IF i = 0
            THEN /\ UNCHANGED tabsInfoMap
                 /\ notified' = <<>>
            ELSE /\ tabsInfoMap' =
                      [tabsInfoMap EXCEPT ![tabId].filteringEvents[i] =
                          Assign(tabInfo.filteringEvents[i], data)]
                 /\ notified' = <<Note("LogEventAdded", tabId)>>
    /\ lastOp' = Op("updateEventData", tabId, [eventId |-> eventId] @@ data)
    /\ UNCHANGED <<openedFilteringLogsPages, preserveLogEnabled, filtersCache,
                   debugScriptlets, collectHitStats, disableCollectHits>>
    /\ UNCHANGED <<tabVars, cacheVars, storeVars, limitVars>>

\* Variant: isExistingCookieEvent without the comparison of cookieValue.
isExistingCookieEventAnyValue(data) ==
    LET tabInfo == getFilteringInfoByTabId(data.tabId) IN
    IF tabInfo = NoTab
    THEN FALSE
    ELSE \E i \in 1..Len(tabInfo.filteringEvents) :
            /\ tabInfo.filteringEvents[i].frameDomain = data.frameDomain
            /\ tabInfo.filteringEvents[i].cookieName = data.cookieName

\* isExistingCookieEvent({ data }): reads the state only.
isExistingCookieEvent(data) ==
    LET tabInfo == getFilteringInfoByTabId(data.tabId) IN
    IF tabInfo = NoTab
    THEN FALSE
    ELSE \E i \in 1..Len(tabInfo.filteringEvents) :
            /\ tabInfo.filteringEvents[i].frameDomain = data.frameDomain
            /\ tabInfo.filteringEvents[i].cookieName = data.cookieName
            /\ tabInfo.filteringEvents[i].cookieValue = data.cookieValue

\* A call of isExistingCookieEvent: its result is recorded with the call.
CallIsExistingCookieEvent(data) ==
    /\ lastOp' = Op("isExistingCookieEvent", data.tabId,
                    [frameDomain |-> data.frameDomain, cookieName |-> data.cookieName,
                     cookieValue |-> data.cookieValue,
                     result |-> isExistingCookieEvent(data)])
    /\ notified' = <<>>
    /\ UNCHANGED <<openedFilteringLogsPages, preserveLogEnabled, tabsInfoMap, filtersCache,
                   debugScriptlets, collectHitStats, disableCollectHits>>
    /\ UNCHANGED <<tabVars, cacheVars, storeVars, limitVars>>

(***************************************************************************)
(* Tab lifecycle calls.                                                    *)
(***************************************************************************)
CallCreateTabInfo(tab, isSyntheticTab) ==
    LET r == createTabInfo([tabs |-> tabsInfoMap, notes |-> <<>>], tab, isSyntheticTab) IN
    /\ tabsInfoMap' = r.tabs
    /\ notified' = r.notes
    /\ lastOp' = Op(IF isSyntheticTab THEN "createTabInfo:synthetic" ELSE "createTabInfo",
                    tab.id, tab)
    /\ UNCHANGED <<openedFilteringLogsPages, preserveLogEnabled, filtersCache,
                   debugScriptlets, collectHitStats, disableCollectHits>>
    /\ UNCHANGED <<tabVars, cacheVars, storeVars, limitVars>>

CallUpdateTabInfo(tab) ==
    LET r == updateTabInfo([tabs |-> tabsInfoMap, notes |-> <<>>], tab) IN
    /\ tabsInfoMap' = r.tabs
    /\ notified' = r.notes
    /\ lastOp' = Op("updateTabInfo", tab.id, tab)
    /\ UNCHANGED <<openedFilteringLogsPages, preserveLogEnabled, filtersCache,
                   debugScriptlets, collectHitStats, disableCollectHits>>
    /\ UNCHANGED <<tabVars, cacheVars, storeVars, limitVars>>

CallRemoveTabInfo(id) ==
    LET r == removeTabInfo([tabs |-> tabsInfoMap, notes |-> <<>>], id) IN
    /\ tabsInfoMap' = r.tabs
    /\ notified' = r.notes
    /\ lastOp' = Op("removeTabInfo", id, NoEvent)
    /\ UNCHANGED <<openedFilteringLogsPages, preserveLogEnabled, filtersCache,
                   debugScriptlets, collectHitStats, disableCollectHits>>
    /\ UNCHANGED <<tabVars, cacheVars, storeVars, limitVars>>

(***************************************************************************)
(* Inputs and steps of the event store (SpecEvents).                       *)
(***************************************************************************)
\* Events handed to addEventData in SpecEvents.
EventInputs == {MkEvent("e1", "d", "n", "v", 0), MkEvent("e2", "d", "n", "v", 0)}

EventIds == {"e1", "e2"}

\* Partial events handed to updateEventData in SpecEvents.
Partials == {[statusCode |-> 200]}

\* The browser tab SpecEvents registers; tab 2 stays unknown to the log.
EventsTab == [id |-> 1, title |-> "a", url |-> "web"]

\* Cookie events handed to isExistingCookieEvent in SpecEvents: the cookie of
\* the recorded events, and the same cookie with another value.
CookieInputs ==
    {[tabId |-> t, frameDomain |-> "d", cookieName |-> "n", cookieValue |-> v] :
        t \in AllTabIds, v \in {"v", "w"}}

NextEvents ==
    \/ onOpenFilteringLogPage
    \/ onCloseFilteringLogPage
    \/ \E b \in BOOLEAN : setPreserveLogState(b)
    \/ CallCreateTabInfo(EventsTab, FALSE)
    \/ CallRemoveTabInfo(EventsTab.id)
    \/ \E t \in AllTabIds, e \in EventInputs : addEventData(t, e)
    \/ \E t \in TabIds, id \in EventIds, p \in Partials : updateEventData(t, id, p)
    \/ \E t \in AllTabIds, ig \in BOOLEAN : clearEventsByTabId(t, ig)
    \/ \E c \in CookieInputs : CallIsExistingCookieEvent(c)

(***************************************************************************)
(* The viewer lifecycle and the engine's debug flags (SpecViewers).        *)
(***************************************************************************)
\* The event SpecViewers records.
ViewersEvent == MkEvent("e1", "d", "n", "v", 0)

NextViewers ==
    \/ \E debugAccepted \in BOOLEAN, hitsAccepted \in BOOLEAN :
          onOpenFilteringLogPageEngine(debugAccepted, hitsAccepted)
    \/ \E debugAccepted \in BOOLEAN, hitsAccepted \in BOOLEAN :
          onCloseFilteringLogPageEngine(debugAccepted, hitsAccepted)
    \/ CallCreateTabInfo(EventsTab, FALSE)
    \/ \E t \in AllTabIds : addEventData(t, ViewersEvent)

(***************************************************************************)
(* synchronizeOpenTabs and the browser's tabs (SpecTabs).                  *)
(***************************************************************************)
\* Object.keys(this.tabsInfoMap): tabsInfoMap is a Map, whose entries are not
\* own enumerable properties of the object, so the key list is empty
\* whatever the map holds.
ObjectKeys(map) == <<>>

\* Array.prototype.indexOf: 1-based index of the first occurrence, 0 if none.
IndexOf(s, x) ==
    IF \E i \in 1..Len(s) : s[i] = x
    THEN CHOOSE i \in 1..Len(s) : s[i] = x /\ \A j \in 1..(i - 1) : s[j] # x
    ELSE 0

\* Array.prototype.splice(index, 1) for a 1-based index.
RemoveAt(s, i) == SubSeq(s, 1, i - 1) \o SubSeq(s, i + 1, Len(s))

\* The first loop of synchronizeOpenTabs, from the i-th open tab on;
\* acc = [st, toRemove].
RECURSIVE SyncOpenTabs(_, _, _)
SyncOpenTabs(acc, tabs, i) ==
    IF i > Len(tabs)
    THEN acc
    ELSE LET openTab == tabs[i] IN
         IF openTab.id = 0
         THEN SyncOpenTabs(acc, tabs, i + 1)
         ELSE LET st1 == IF acc.st.tabs[openTab.id] = NoTab
                         THEN createTabInfo(acc.st, openTab, FALSE)
                         ELSE updateTabInfo(acc.st, openTab)
                  index == IndexOf(acc.toRemove, openTab.id)
                  rest == IF index >= 1 THEN RemoveAt(acc.toRemove, index)
                                        ELSE acc.toRemove
              IN SyncOpenTabs([st |-> st1, toRemove |-> rest], tabs, i + 1)

\* The second loop of synchronizeOpenTabs, from the j-th id on.
RECURSIVE SyncRemoveTabs(_, _, _)
SyncRemoveTabs(st, toRemove, j) ==
    IF j > Len(toRemove)
    THEN st
    ELSE SyncRemoveTabs(IF toRemove[j] # 0 THEN removeTabInfo(st, toRemove[j]) ELSE st,
                        toRemove, j + 1)

\* synchronizeOpenTabs after TabsApi.getAll() has resolved with tabs.
synchronizeOpenTabs(st, tabs) ==
    LET tabIdsToRemove == ObjectKeys(st.tabs)
        acc == SyncOpenTabs([st |-> st, toRemove |-> tabIdsToRemove], tabs, 1)
    IN SyncRemoveTabs(acc.st, acc.toRemove, 1)

\* TabsApi.getAll(): the browser's tabs, in the order the browser lists them.
getAll == browserTabs

\* synchronizeOpenTabs up to its await: the call to TabsApi.getAll().
SyncBegin ==
    /\ syncSnapshot.pc = "idle"
    /\ syncSnapshot' = [pc |-> "waiting", tabs |-> getAll]
    /\ notified' = <<>>
    /\ lastOp' = Op("synchronizeOpenTabs:call", 0, NoEvent)
    /\ UNCHANGED <<openedFilteringLogsPages, preserveLogEnabled, tabsInfoMap, filtersCache,
                   debugScriptlets, collectHitStats, disableCollectHits>>
    /\ UNCHANGED <<browserTabs, cacheVars, storeVars, limitVars>>

\* synchronizeOpenTabs from the await to its return.
SyncResume ==
    /\ syncSnapshot.pc = "waiting"
    /\ LET r == synchronizeOpenTabs([tabs |-> tabsInfoMap, notes |-> <<>>],
                                    syncSnapshot.tabs)
       IN /\ tabsInfoMap' = r.tabs
          /\ notified' = r.notes
    /\ syncSnapshot' = [pc |-> "idle", tabs |-> <<>>]
    /\ lastOp' = Op("synchronizeOpenTabs", 0, [tabs |-> syncSnapshot.tabs])
    /\ UNCHANGED <<openedFilteringLogsPages, preserveLogEnabled, filtersCache,
                   debugScriptlets, collectHitStats, disableCollectHits>>
    /\ UNCHANGED <<browserTabs, cacheVars, storeVars, limitVars>>

\* The browser opens a tab, navigates or retitles one, or closes one.
BrowserSetTabs(tabs) ==
    /\ browserTabs' = tabs
    /\ tabs # browserTabs
    /\ UNCHANGED <<logVars, syncSnapshot, cacheVars, storeVars, limitVars>>

\* Tabs the browser can report in SpecTabs.  A tab may lack a title, and a
\* window without a real tab is reported with the id -1 (TAB_ID_NONE), the
\* value of BACKGROUND_TAB_ID.
BrowserTabChoices ==
    { <<>>,
      <<[id |-> 1, title |-> "a", url |-> "web"]>>,
      <<[id |-> 2, title |-> "b", url |-> "ext"]>>,
      <<[id |-> 1, title |-> "a", url |-> "web"], [id |-> 2, title |-> "b", url |-> "ext"]>>,
      <<[id |-> 1, title |-> "b", url |-> "ext"], [id |-> 2, title |-> "", url |-> "web"]>>,
      <<[id |-> BACKGROUND_TAB_ID, title |-> "a", url |-> "ext"],
        [id |-> 2, title |-> "b", url |-> "ext"]>>,
      <<[id |-> 0, title |-> "a", url |-> "web"], [id |-> 1, title |-> "b", url |-> "web"]>> }

\* Tabs handed to createTabInfo and updateTabInfo in SpecTabs.
TabInputs ==
    { [id |-> 1, title |-> "a", url |-> "web"],
      [id |-> 1, title |-> "b", url |-> "ext"],
      [id |-> 2, title |-> "b", url |-> "ext"],
      [id |-> 2, title |-> "", url |-> "web"],
      [id |-> BACKGROUND_TAB_ID, title |-> "a", url |-> "ext"] }

\* The event SpecTabs records.
TabsEvent == MkEvent("e1", "d", "n", "v", 0)

NextTabs ==
    \/ onOpenFilteringLogPage
    \/ \E tabs \in BrowserTabChoices : BrowserSetTabs(tabs)
    \/ \E tab \in TabInputs, syn \in BOOLEAN : CallCreateTabInfo(tab, syn)
    \/ \E tab \in TabInputs : CallUpdateTabInfo(tab)
    \/ \E id \in AllTabIds : CallRemoveTabInfo(id)
    \/ \E t \in TabIds : addEventData(t, TabsEvent)
    \/ SyncBegin
    \/ SyncResume

(***************************************************************************)
(* Rule-text lookup against the filter store (SpecCache).                  *)
(***************************************************************************)
\* JavaScript's undefined, as the value of a property.
Undefined == "<undefined>"

\* getRuleText's null result.
Null == [kind |-> "null"]

RuleText(ruleText, hasApplied, appliedRuleText) ==
    [kind |-> "RuleText", ruleText |-> ruleText,
     hasApplied |-> hasApplied, appliedRuleText |-> appliedRuleText]

\* A PreprocessedFilterList: rawFilterList maps the start offset of each line
\* to the rule text on it, sourceMap maps a rule's index in the compiled
\* buffer to the start offset of its line, conversionMap maps the start offset
\* of a converted line to the original rule text.  hasSourceMap is FALSE when
\* the list carries no source map.
FilterData(raw, conversionMap, hasSourceMap, sourceMap) ==
    [rawFilterList |-> raw, conversionMap |-> conversionMap,
     hasSourceMap |-> hasSourceMap, sourceMap |-> sourceMap]

\* getRuleSourceIndex(ruleIndex, sourceMap) of @adguard/tswebextension.
getRuleSourceIndex(ruleIndex, sourceMap) ==
    IF ruleIndex \in DOMAIN sourceMap THEN sourceMap[ruleIndex] ELSE -1

\* getRuleSourceText(lineStartIndex, rawFilterList) of @adguard/tswebextension.
getRuleSourceText(lineStartIndex, rawFilterList) ==
    IF lineStartIndex \in DOMAIN rawFilterList THEN rawFilterList[lineStartIndex] ELSE ""

\* obj[key] of a JavaScript record.
Lookup(obj, key) == IF key \in DOMAIN obj THEN obj[key] ELSE Undefined

\* getRuleText from the point where filterData is known.
ResolveRuleText(filterData, ruleIndex) ==
    IF ~filterData.hasSourceMap
    THEN Null
    ELSE LET lineStartIndex == getRuleSourceIndex(ruleIndex, filterData.sourceMap) IN
         IF lineStartIndex = -1
         THEN Null
         ELSE LET sourceRule == getRuleSourceText(lineStartIndex, filterData.rawFilterList) IN
              IF sourceRule = ""
              THEN Null
              ELSE IF Lookup(filterData.conversionMap, lineStartIndex) \notin {Undefined, ""}
              THEN RuleText(sourceRule, TRUE, Lookup(filterData.conversionMap, ruleIndex))
              ELSE RuleText(sourceRule, FALSE, Undefined)

\* FiltersStorage.getAllFilterData(filterId): the stored filter data, or the
\* marker of a filter none of whose records exists.
getAllFilterData(filterId) == filterStore[filterId]

\* The outcome of a completed getRuleText call: whether it went to the filter
\* store, the filter data it used and the result it resolved to.
Answer(filterId, ruleIndex, fetched, filterData, result) ==
    [filterId |-> filterId, ruleIndex |-> ruleIndex, fetched |-> fetched,
     filterData |-> filterData, result |-> result]

LookupOp(name, filterId, ruleIndex) ==
    Op(name, 0, [filterId |-> filterId, ruleIndex |-> ruleIndex])

\* Bound on the getRuleText calls suspended at the same time.
MaxLookups == 1

\* getRuleText(filterId, ruleIndex) up to its first suspension: a cache hit
\* resolves at once, a miss calls FiltersStorage.getAllFilterData and awaits.
getRuleTextCall(filterId, ruleIndex) ==
    LET filterData == filtersCache[filterId] IN
    /\ IF filterData # NoFilterData
       THEN /\ lastRuleText' = Answer(filterId, ruleIndex, FALSE, filterData,
                                      ResolveRuleText(filterData, ruleIndex))
            /\ lastOp' = LookupOp("getRuleText", filterId, ruleIndex)
            /\ UNCHANGED lookups
       ELSE /\ Cardinality(lookups) < MaxLookups
            /\ lookups' = lookups \cup
                 {[filterId |-> filterId, ruleIndex |-> ruleIndex,
                   pc |-> "reading", filterData |-> NoFilterData]}
            /\ lastOp' = LookupOp("getRuleText:call", filterId, ruleIndex)
            /\ UNCHANGED lastRuleText
    /\ notified' = <<>>
    /\ UNCHANGED <<openedFilteringLogsPages, preserveLogEnabled, tabsInfoMap, filtersCache,
                   debugScriptlets, collectHitStats, disableCollectHits>>
    /\ UNCHANGED <<tabVars, filterStore, storeVars, limitVars>>

\* The storage read of a suspended getRuleText call takes place.
getRuleTextRead(l) ==
    /\ l \in lookups
    /\ l.pc = "reading"
    /\ lookups' = (lookups \ {l}) \cup
         {[l EXCEPT !.pc = "loaded", !.filterData = getAllFilterData(l.filterId)]}
    /\ UNCHANGED <<logVars, tabVars, filterStore, lastRuleText, storeVars, limitVars>>

\* The promise of getRuleText is rejected with the error of the storage.
Raised == [kind |-> "error"]

\* FiltersStorage.getAllFilterData fails (the storage read fails, or what it
\* read fails validation): the await in getRuleText throws and, there being
\* no handler around it, getRuleText is rejected with that error.
getRuleTextReadFails(l) ==
    /\ l \in lookups
    /\ l.pc = "reading"
    /\ lookups' = lookups \ {l}
    /\ lastRuleText' = Answer(l.filterId, l.ruleIndex, TRUE, NoFilterData, Raised)
    /\ notified' = <<>>
    /\ lastOp' = LookupOp("getRuleText", l.filterId, l.ruleIndex)
    /\ UNCHANGED <<openedFilteringLogsPages, preserveLogEnabled, tabsInfoMap, filtersCache,
                   debugScriptlets, collectHitStats, disableCollectHits>>
    /\ UNCHANGED <<tabVars, filterStore, storeVars, limitVars>>

\* getRuleText from the await of getAllFilterData to its return.
getRuleTextResume(l) ==
    /\ l \in lookups
    /\ l.pc = "loaded"
    /\ lookups' = lookups \ {l}
    /\ IF l.filterData # NoFilterData
       THEN /\ filtersCache' = [filtersCache EXCEPT ![l.filterId] = l.filterData]
            /\ lastRuleText' = Answer(l.filterId, l.ruleIndex, TRUE, l.filterData,
                                      ResolveRuleText(l.filterData, l.ruleIndex))
       ELSE /\ UNCHANGED filtersCache
            /\ lastRuleText' = Answer(l.filterId, l.ruleIndex, TRUE, NoFilterData, Null)
    /\ notified' = <<>>
    /\ lastOp' = LookupOp("getRuleText", l.filterId, l.ruleIndex)
    /\ UNCHANGED <<openedFilteringLogsPages, preserveLogEnabled, tabsInfoMap,
                   debugScriptlets, collectHitStats, disableCollectHits>>
    /\ UNCHANGED <<tabVars, filterStore, storeVars, limitVars>>

\* onFiltersChanged(filterIds?): hasIds tells whether filterIds was given.
onFiltersChanged(hasIds, filterIds) ==
    /\ filtersCache' = IF isOpen
                       THEN purgeFiltersCache(filtersCache, hasIds, filterIds)
                       ELSE filtersCache
    /\ notified' = <<>>
    /\ lastOp' = Op("onFiltersChanged", 0, NoEvent)
    /\ UNCHANGED <<openedFilteringLogsPages, preserveLogEnabled, tabsInfoMap,
                   debugScriptlets, collectHitStats, disableCollectHits>>
    /\ UNCHANGED <<tabVars, cacheVars, storeVars, limitVars>>

\* A collaborator changes the stored content of a filter and then reports it
\* with onFiltersChanged([filterId]) or onFiltersChanged().
FilterUpdated(filterId, filterData, hasIds) ==
    /\ filterStore[filterId] # filterData
    /\ filterStore' = [filterStore EXCEPT ![filterId] = filterData]
    /\ filtersCache' = IF isOpen
                       THEN purgeFiltersCache(filtersCache, hasIds, {filterId})
                       ELSE filtersCache
    /\ notified' = <<>>
    /\ lastOp' = Op("onFiltersChanged", 0, NoEvent)
    /\ UNCHANGED <<openedFilteringLogsPages, preserveLogEnabled, tabsInfoMap,
                   debugScriptlets, collectHitStats, disableCollectHits>>
    /\ UNCHANGED <<tabVars, lookups, lastRuleText, storeVars, limitVars>>

\* Filter data found in the store in SpecCache: a list nothing of which was
\* converted, and a list whose only rule was converted.
PlainFilter ==
    FilterData(0 :> "a.com##.ad" @@ 11 :> "b.com##.banner",
               <<>>,
               TRUE,
               4 :> 0 @@ 20 :> 11)

ConvertedFilter ==
    FilterData(0 :> "x.com#%#//scriptlet('abp-log')",
               0 :> "x.com#$#log",
               TRUE,
               4 :> 0)

FilterDatas == {PlainFilter, ConvertedFilter}

\* Rule indexes handed to getRuleText in SpecCache.
RuleIndexes == {4, 20}

\* The event SpecCache records.
CacheEvent == MkEvent("e1", "d", "n", "v", 0)

NextCache ==
    \/ onOpenFilteringLogPage
    \/ onCloseFilteringLogPage
    \/ addEventData(BACKGROUND_TAB_ID, CacheEvent)
    \/ \E f \in FilterIds, i \in RuleIndexes : getRuleTextCall(f, i)
    \/ \E l \in lookups : getRuleTextRead(l)
    \/ \E l \in lookups : getRuleTextResume(l)
    \/ \E l \in lookups : getRuleTextReadFails(l)
    \/ \E f \in FilterIds, d \in FilterDatas, hasIds \in BOOLEAN : FilterUpdated(f, d, hasIds)
    \/ \E ids \in SUBSET FilterIds : onFiltersChanged(TRUE, ids)
    \/ onFiltersChanged(FALSE, {})

(***************************************************************************)
(* HybridStorage: selection of the backend (SpecHybrid).                   *)
(***************************************************************************)
\* Bound on the HybridStorage calls in progress at the same time.
MaxCalls == 2

CallSlots == 1..MaxCalls

\* The public operations of HybridStorage; each one awaits getStorage() and
\* then calls the operation of the same name on the storage it got.
HybridOps == {"set", "get", "remove", "setMultiple", "removeMultiple", "entries"}

\* this.storage === null
NoStorage == [id |-> 0, kind |-> "null"]

IdleCall == [op |-> "", pc |-> "idle", storage |-> NoStorage]

\* A fresh HybridStorage: no storage selected, nothing probed, no backend
\* instance constructed, no call in progress, no operation served yet.
InitHybrid ==
    [storage |-> NoStorage,
     probes |-> 0,
     created |-> 0,
     calls |-> [c \in CallSlots |-> IdleCall],
     served |-> {}]

\* new IDBStorage() or new BrowserStorage(): the next backend instance.
NewStorage(h, isIDBSupported) ==
    [id |-> h.created + 1, kind |-> IF isIDBSupported THEN "IDBStorage" ELSE "BrowserStorage"]

\* getStorage() up to its await: returns the cached storage, or starts
\* HybridStorage.isIDBSupported() and awaits it.
getStorageCall(h, c, op) ==
    IF h.storage # NoStorage
    THEN [h EXCEPT !.calls[c] = [op |-> op, pc |-> "ready", storage |-> h.storage]]
    ELSE [h EXCEPT !.calls[c] = [op |-> op, pc |-> "probing", storage |-> NoStorage],
                   !.probes = h.probes + 1]

\* getStorage() from the await of isIDBSupported() to its return.
getStorageResume(h, c, isIDBSupported) ==
    LET storage == NewStorage(h, isIDBSupported) IN
    [h EXCEPT !.storage = storage,
              !.created = h.created + 1,
              !.calls[c].pc = "ready",
              !.calls[c].storage = storage]

\* A public operation of HybridStorage is called.
HybridCall(c, op) ==
    /\ hybrid.calls[c].pc = "idle"
    /\ hybrid' = getStorageCall(hybrid, c, op)
    /\ UNCHANGED <<logVars, tabVars, cacheVars, limitVars, records, conversionMaps, storeCalls, storeResult>>

\* The capability probe of a suspended getStorage() resolves.
HybridProbeDone(c, isIDBSupported) ==
    /\ hybrid.calls[c].pc = "probing"
    /\ hybrid' = getStorageResume(hybrid, c, isIDBSupported)
    /\ UNCHANGED <<logVars, tabVars, cacheVars, limitVars, records, conversionMaps, storeCalls, storeResult>>

\* The operation runs on the storage getStorage() returned to it.
HybridServe(c) ==
    /\ hybrid.calls[c].pc = "ready"
    /\ hybrid' = [hybrid EXCEPT !.calls[c] = IdleCall,
                                !.served = hybrid.served \cup {hybrid.calls[c].storage}]
    /\ UNCHANGED <<logVars, tabVars, cacheVars, limitVars, records, conversionMaps, storeCalls, storeResult>>

NextHybrid ==
    \/ \E c \in CallSlots, op \in HybridOps : HybridCall(c, op)
    \/ \E c \in CallSlots, isIDBSupported \in BOOLEAN : HybridProbeDone(c, isIDBSupported)
    \/ \E c \in CallSlots : HybridServe(c)

(***************************************************************************)
(* FiltersStorage over the hybrid storage (SpecStore).                     *)
(***************************************************************************)
\* AntiBannerFiltersId.UserFilterId
UserFilterId == 0

\* Filter ids stored in SpecStore: the user rules and one ordinary filter.
StoreFilterIds == {UserFilterId, 1}

FILTER_KEY_PREFIX == "filterrules_"

ORIGINAL_FILTER_KEY_PREFIX == "originalfilterrules_"

CONVERSION_MAP_PREFIX == "conversionmap_"

FILTER_LIST_EXTENSION == ".txt"

getFilterKey(filterId, original) ==
    (IF original THEN ORIGINAL_FILTER_KEY_PREFIX ELSE FILTER_KEY_PREFIX)
        \o ToString(filterId) \o FILTER_LIST_EXTENSION

getConversionMapKey(filterId) ==
    CONVERSION_MAP_PREFIX \o ToString(filterId) \o FILTER_LIST_EXTENSION

\* The keys FiltersStorage uses in the storage.
StoreKeys ==
    UNION {{getFilterKey(f, FALSE), getFilterKey(f, TRUE), getConversionMapKey(f)} :
              f \in StoreFilterIds}

\* A value read from the storage or from an object: undefined, or a value.
Absent == [present |-> FALSE]

Stored(value) == [present |-> TRUE, value |-> value]

\* FilterConverter on one line: the rules it is converted to.  A native rule
\* stays as it is, a snippet line becomes several rules, and two different
\* lines can be converted to the same rule.
ConvertRule(line) ==
    CASE line = "abp-snippets" -> <<"adg-s1", "adg-s2">>
      [] line = "abp-a" -> <<"adg-x">>
      [] line = "abp-b" -> <<"adg-x">>
      [] OTHER -> <<line>>

\* FilterConverter.convertFilter(filter): the converted rules and, for each
\* converted rule that differs from its line, the line it came from (a later
\* line overwrites the entry of an earlier one).
RECURSIVE convertFilterFrom(_, _, _)
convertFilterFrom(filter, i, acc) ==
    IF i > Len(filter)
    THEN acc
    ELSE LET line == filter[i]
             rules == ConvertRule(line)
             changed == {rules[k] : k \in 1..Len(rules)} \ {line}
         IN convertFilterFrom(filter, i + 1,
                [filter |-> acc.filter \o rules,
                 conversionMap |->
                    [r \in DOMAIN acc.conversionMap \cup changed |->
                        IF r \in changed THEN line ELSE acc.conversionMap[r]]])

convertFilter(filter) ==
    convertFilterFrom(filter, 1, [filter |-> <<>>, conversionMap |-> <<>>])

\* Variant: the original-rules record is written with the converted rules.
prepareFilterForStorageConverted(filterId, filter) ==
    LET converted == convertFilter(filter)
        filterKey == getFilterKey(filterId, FALSE)
        conversionMapKey == getConversionMapKey(filterId)
        originalFilterKey == getFilterKey(filterId, TRUE)
        keys == {filterKey, conversionMapKey} \cup
                    (IF filterId = UserFilterId THEN {originalFilterKey} ELSE {})
    IN [k \in keys |->
            IF k = filterKey THEN converted.filter
            ELSE IF k = conversionMapKey THEN converted.conversionMap
            ELSE converted.filter]

prepareFilterForStorage(filterId, filter) ==
    LET converted == convertFilter(filter)
        filterKey == getFilterKey(filterId, FALSE)
        conversionMapKey == getConversionMapKey(filterId)
        originalFilterKey == getFilterKey(filterId, TRUE)
        keys == {filterKey, conversionMapKey} \cup
                    (IF filterId = UserFilterId THEN {originalFilterKey} ELSE {})
    IN [k \in keys |->
            IF k = filterKey THEN converted.filter
            ELSE IF k = conversionMapKey THEN converted.conversionMap
            ELSE filter]

\* obj.name of a JavaScript object whose properties are the keys of obj.
Property(obj, name) == IF name \in DOMAIN obj THEN Stored(obj[name]) ELSE Absent

\* updateConversionMapIfPossible(filterId, possibleMap): the schema rejects
\* undefined, the error is logged and the cache stays as it is.
updateConversionMapIfPossible(maps, filterId, possibleMap) ==
    IF possibleMap.present
    THEN [maps EXCEPT ![filterId] = Stored(possibleMap.value)]
    ELSE maps

\* The backend's setMultiple(data): one transaction.  It writes every pair
\* and reports true, or writes nothing and either reports false or fails.
SetMultipleOutcomes == {"true", "false", "throw"}

backendSetMultiple(recs, data, outcome) ==
    IF outcome = "true"
    THEN [k \in DOMAIN recs |-> IF k \in DOMAIN data THEN Stored(data[k]) ELSE recs[k]]
    ELSE recs

backendRemove(recs, key) ==
    [k \in DOMAIN recs |-> IF k = key THEN Absent ELSE recs[k]]

\* The outcome of a FiltersStorage call: the call, whether its promise
\* resolved or rejected, the value it resolved to, and for set whether the
\* bulk write was committed.
Resolved(call, value, committed) ==
    [op |-> call.op, filterId |-> call.filterId, filter |-> call.filter,
     status |-> "resolved", value |-> value, committed |-> committed]

Rejected(call, error) ==
    [op |-> call.op, filterId |-> call.filterId, filter |-> call.filter,
     status |-> "rejected", value |-> error, committed |-> FALSE]

StoreCall(op, filterId, filter, pc) ==
    [op |-> op, filterId |-> filterId, filter |-> filter, pc |-> pc, data |-> Absent]

\* Bound on the FiltersStorage calls in progress at the same time.
MaxStoreCalls == 2

StoreBegin(call) ==
    /\ Cardinality(storeCalls) < MaxStoreCalls
    /\ storeCalls' = storeCalls \cup {call}

\* FiltersStorage.set(filterId, filter) up to the await of setMultiple.
FiltersSetCall(filterId, filter) ==
    /\ StoreBegin(StoreCall("set", filterId, filter, "setMultiple"))
    /\ UNCHANGED <<logVars, tabVars, cacheVars, limitVars, hybrid, records, conversionMaps, storeResult>>

\* FiltersStorage.set from the bulk write to its return.
FiltersSetResume(call, outcome) ==
    /\ call \in storeCalls
    /\ call.op = "set"
    /\ LET data == prepareFilterForStorage(call.filterId, call.filter) IN
       /\ records' = backendSetMultiple(records, data, outcome)
       /\ IF outcome = "throw"
          THEN /\ UNCHANGED conversionMaps
               /\ storeResult' = Rejected(call, "StorageError")
          ELSE /\ conversionMaps' =
                    updateConversionMapIfPossible(conversionMaps, call.filterId,
                                                  Property(data, "conversionMap"))
               /\ storeResult' = Resolved(call, <<>>, outcome = "true")
    /\ storeCalls' = storeCalls \ {call}
    /\ UNCHANGED <<logVars, tabVars, cacheVars, limitVars, hybrid>>

\* FiltersStorage.get(filterId) up to its first await.
FiltersGetCall(filterId) ==
    /\ StoreBegin(StoreCall("get", filterId, <<>>, "filter"))
    /\ UNCHANGED <<logVars, tabVars, cacheVars, limitVars, hybrid, records, conversionMaps, storeResult>>

\* FiltersStorage.get: the read of the filter record.
FiltersGetFilter(call) ==
    /\ call \in storeCalls
    /\ call.op = "get" /\ call.pc = "filter"
    /\ storeCalls' = (storeCalls \ {call}) \cup
          {[call EXCEPT !.pc = "conversionMap",
                        !.data = records[getFilterKey(call.filterId, FALSE)]]}
    /\ UNCHANGED <<logVars, tabVars, cacheVars, limitVars, hybrid, records, conversionMaps, storeResult>>

\* A value under a filter key that is not an array of strings: storage is
\* persistent and shared, so a record may come from another writer.
Malformed == [present |-> TRUE, malformed |-> TRUE]

\* zod.string().array() accepts the value.
IsStringArray(data) == data.present /\ "value" \in DOMAIN data

\* The filter record of a filter is overwritten from outside FiltersStorage.
StorageForeignWrite(filterId) ==
    /\ records' = [records EXCEPT ![getFilterKey(filterId, FALSE)] = Malformed]
    /\ UNCHANGED <<logVars, tabVars, cacheVars, limitVars, hybrid, conversionMaps, storeCalls, storeResult>>

\* Variant: get falls back to an empty filter instead of failing validation.
FiltersGetResumeLenient(call) ==
    /\ call \in storeCalls
    /\ call.op = "get" /\ call.pc = "conversionMap"
    /\ conversionMaps' =
          updateConversionMapIfPossible(conversionMaps, call.filterId,
                                        records[getConversionMapKey(call.filterId)])
    /\ storeResult' = IF IsStringArray(call.data)
                      THEN Resolved(call, call.data.value, FALSE)
                      ELSE Resolved(call, <<>>, FALSE)
    /\ storeCalls' = storeCalls \ {call}
    /\ UNCHANGED <<logVars, tabVars, cacheVars, limitVars, hybrid, records>>

\* FiltersStorage.get from the read of the conversion map to its return.
FiltersGetResume(call) ==
    /\ call \in storeCalls
    /\ call.op = "get" /\ call.pc = "conversionMap"
    /\ conversionMaps' =
          updateConversionMapIfPossible(conversionMaps, call.filterId,
                                        records[getConversionMapKey(call.filterId)])
    /\ storeResult' = IF IsStringArray(call.data)
                      THEN Resolved(call, call.data.value, FALSE)
                      ELSE Rejected(call, "ValidationError")
    /\ storeCalls' = storeCalls \ {call}
    /\ UNCHANGED <<logVars, tabVars, cacheVars, limitVars, hybrid, records>>

\* FiltersStorage.remove(filterId) up to its first await.
FiltersRemoveCall(filterId) ==
    /\ StoreBegin(StoreCall("remove", filterId, <<>>, "conversionMap"))
    /\ conversionMaps' = [conversionMaps EXCEPT ![filterId] = Absent]
    /\ UNCHANGED <<logVars, tabVars, cacheVars, limitVars, hybrid, records, storeResult>>

\* FiltersStorage.remove: the removal of the conversion map record.
FiltersRemoveConversionMap(call) ==
    /\ call \in storeCalls
    /\ call.op = "remove" /\ call.pc = "conversionMap"
    /\ records' = backendRemove(records, getConversionMapKey(call.filterId))
    /\ storeCalls' = (storeCalls \ {call}) \cup {[call EXCEPT !.pc = "original"]}
    /\ UNCHANGED <<logVars, tabVars, cacheVars, limitVars, hybrid, conversionMaps, storeResult>>

\* Variant: remove also deletes the filter record.
FiltersRemoveResumeAll(call) ==
    /\ call \in storeCalls
    /\ call.op = "remove" /\ call.pc = "original"
    /\ records' = backendRemove(backendRemove(records, getFilterKey(call.filterId, TRUE)),
                                getFilterKey(call.filterId, FALSE))
    /\ storeResult' = Resolved(call, <<>>, FALSE)
    /\ storeCalls' = storeCalls \ {call}
    /\ UNCHANGED <<logVars, tabVars, cacheVars, limitVars, hybrid, conversionMaps>>

\* FiltersStorage.remove: the removal of the original-rules record, and the return.
FiltersRemoveResume(call) ==
    /\ call \in storeCalls
    /\ call.op = "remove" /\ call.pc = "original"
    /\ records' = backendRemove(records, getFilterKey(call.filterId, TRUE))
    /\ storeResult' = Resolved(call, <<>>, FALSE)
    /\ storeCalls' = storeCalls \ {call}
    /\ UNCHANGED <<logVars, tabVars, cacheVars, limitVars, hybrid, conversionMaps>>

\* The schema of getOriginalUserRules on what the storage returned:
\* zod.array(zod.string()).optional().default([]).
ParseOriginalUserRules(data) == IF data.present THEN data.value ELSE <<>>

\* FiltersStorage.getOriginalUserRules() up to its await.
GetOriginalUserRulesCall ==
    /\ StoreBegin(StoreCall("getOriginalUserRules", UserFilterId, <<>>, "original"))
    /\ UNCHANGED <<logVars, tabVars, cacheVars, limitVars, hybrid, records, conversionMaps, storeResult>>

\* FiltersStorage.getOriginalUserRules from the read to its return.
GetOriginalUserRulesResume(call) ==
    /\ call \in storeCalls
    /\ call.op = "getOriginalUserRules"
    /\ storeResult' =
          Resolved(call, ParseOriginalUserRules(records[getFilterKey(UserFilterId, TRUE)]),
                   FALSE)
    /\ storeCalls' = storeCalls \ {call}
    /\ UNCHANGED <<logVars, tabVars, cacheVars, limitVars, hybrid, records, conversionMaps>>

\* FiltersStorage.getOriginalRuleText(filterId, rule)
getOriginalRuleText(filterId, rule) ==
    IF conversionMaps[filterId].present
    THEN Lookup(conversionMaps[filterId].value, rule)
    ELSE Undefined

\* Filter lists handed to FiltersStorage.set in SpecStore: the user rules are
\* set to either list, the other filter to the first one.
StoreInputs ==
    { <<"adg", "abp-snippets">>, <<"abp-a", "abp-b">> }

StoreInputsOf(filterId) ==
    IF filterId = UserFilterId THEN StoreInputs ELSE {<<"adg", "abp-snippets">>}

NextStore ==
    \/ \E f \in StoreFilterIds : \E filter \in StoreInputsOf(f) : FiltersSetCall(f, filter)
    \/ \E call \in storeCalls, o \in SetMultipleOutcomes : FiltersSetResume(call, o)
    \/ \E f \in StoreFilterIds : FiltersGetCall(f)
    \/ \E call \in storeCalls : FiltersGetFilter(call)
    \/ \E call \in storeCalls : FiltersGetResume(call)
    \/ \E f \in StoreFilterIds : FiltersRemoveCall(f)
    \/ \E call \in storeCalls : FiltersRemoveConversionMap(call)
    \/ \E call \in storeCalls : FiltersRemoveResume(call)
    \/ GetOriginalUserRulesCall
    \/ \E call \in storeCalls : GetOriginalUserRulesResume(call)
    \/ \E f \in StoreFilterIds \ {UserFilterId} : StorageForeignWrite(f)

(***************************************************************************)
(* Rule-limit accounting: ConfigurationResultService (SpecLimits).         *)
(***************************************************************************)
\* browser.declarativeNetRequest.MAX_NUMBER_OF_DYNAMIC_AND_SESSION_RULES
MAX_NUMBER_OF_DYNAMIC_AND_SESSION_RULES == 5000

\* browser.declarativeNetRequest.MAX_NUMBER_OF_REGEX_RULES
MAX_NUMBER_OF_REGEX_RULES == 1000

\* configurationResultApi.get() before any result was set.
NoResult == [ready |-> FALSE]

\* No onGetRulesLimits call has completed yet.
NoLimits == [status |-> "none"]

\* A LimitationError of the engine: its class, the maximum it enforced and
\* the ids of the rules it excluded.
LimitationError(type, numberOfMaximumRules, excludedRulesIds) ==
    [type |-> type, numberOfMaximumRules |-> numberOfMaximumRules,
     excludedRulesIds |-> excludedRulesIds]

\* The part of a ConfigurationResult the accounting of user rules reads:
\* the counters of the dynamic rule set and its limitations.
ConfigurationResult(rulesCount, regexpRulesCount, limitations) ==
    [ready |-> TRUE,
     dynamicRules |-> [ruleSet |-> [rulesCount |-> rulesCount,
                                    regexpRulesCount |-> regexpRulesCount],
                       limitations |-> limitations]]

\* limitations.find(e => e instanceof <type>): the first such error, or
\* undefined.
NoError == [type |-> "undefined"]

FindLimitation(limitations, type) ==
    IF \E i \in 1..Len(limitations) : limitations[i].type = type
    THEN limitations[CHOOSE i \in 1..Len(limitations) :
                        /\ limitations[i].type = type
                        /\ \A j \in 1..(i - 1) : limitations[j].type # type]
    ELSE NoError

getRegexpRulesLimitExceedErr(result) ==
    FindLimitation(result.dynamicRules.limitations, "TooManyRegexpRulesError")

getRulesLimitExceedErr(result) ==
    FindLimitation(result.dynamicRules.limitations, "TooManyRulesError")

\* err?.numberOfMaximumRules || fallback: the fallback is taken when there is
\* no error and when the number is 0.
MaximumOr(err, fallback) ==
    IF err = NoError \/ err.numberOfMaximumRules = 0
    THEN fallback
    ELSE err.numberOfMaximumRules

\* Variant: the engine-reported count, whatever the limitations say.
getUserRulesEnabledCountRaw(result) ==
    result.dynamicRules.ruleSet.rulesCount

getUserRulesEnabledCount(result) ==
    LET rulesLimitExceedErr == getRulesLimitExceedErr(result)
        declarativeRulesCount == result.dynamicRules.ruleSet.rulesCount
    IN MaximumOr(rulesLimitExceedErr, declarativeRulesCount)

\* Variant: the nominal maximum, whatever the limitations say.
getUserRulesMaximumCountNominal(result) ==
    MAX_NUMBER_OF_DYNAMIC_AND_SESSION_RULES

getUserRulesMaximumCount(result) ==
    LET rulesLimitExceedErr == getRulesLimitExceedErr(result)
    IN MaximumOr(rulesLimitExceedErr, MAX_NUMBER_OF_DYNAMIC_AND_SESSION_RULES)

getUserRulesRegexpsEnabledCount(result) ==
    LET regexpRulesLimitExceedErr == getRegexpRulesLimitExceedErr(result)
        regexpsCount == result.dynamicRules.ruleSet.regexpRulesCount
    IN regexpsCount + (IF regexpRulesLimitExceedErr = NoError
                       THEN 0
                       ELSE Len(regexpRulesLimitExceedErr.excludedRulesIds))

getUserRulesRegexpsMaximumCount(result) ==
    LET regexpRulesLimitExceedErr == getRegexpRulesLimitExceedErr(result)
    IN MaximumOr(regexpRulesLimitExceedErr, MAX_NUMBER_OF_REGEX_RULES)

\* ConfigurationResultService.set(result)
ConfigurationResultServiceSet(result) ==
    /\ configurationResult' = result
    /\ UNCHANGED <<logVars, tabVars, cacheVars, storeVars, rulesLimits, engine>>

\* configurationResultApi.get(): the result handed to set last, or nothing
\* when set has not been called.
configurationResultApiGet == configurationResult

\* ConfigurationResultService.onGetRulesLimits(): the user-rule fields of the
\* limits it resolves to, computed from the result it read when called, or the
\* error it throws when there is no result.
onGetRulesLimits ==
    LET result == configurationResultApiGet IN
    /\ rulesLimits' =
          IF result = NoResult
          THEN [status |-> "rejected", error |-> "result should be ready"]
          ELSE [status |-> "resolved",
                result |-> result,
                userRulesEnabledCount |-> getUserRulesEnabledCount(result),
                userRulesMaximumCount |-> getUserRulesMaximumCount(result),
                userRulesRegexpsEnabledCount |-> getUserRulesRegexpsEnabledCount(result),
                userRulesRegexpsMaximumCount |-> getUserRulesRegexpsMaximumCount(result)]
    /\ UNCHANGED <<logVars, tabVars, cacheVars, storeVars, configurationResult, engine>>

\* Limitations of the dynamic rules in SpecLimits.  The engine enforces
\* positive maxima only.
TooManyRules == LimitationError("TooManyRulesError", 30000, <<30001, 30002>>)

TooManyRulesLow == LimitationError("TooManyRulesError", 4500, <<4501>>)

TooManyRegexpRules == LimitationError("TooManyRegexpRulesError", 1000, <<7, 9>>)

TooManyRegexpRulesLow == LimitationError("TooManyRegexpRulesError", 500, <<7>>)

OtherLimitation == LimitationError("TooManyUnsafeRulesError", 100, <<3>>)

LimitationLists ==
    { <<>>, <<TooManyRules>>, <<TooManyRulesLow>>, <<TooManyRegexpRules>>,
      <<OtherLimitation>>, <<TooManyRules, TooManyRegexpRulesLow>>,
      <<TooManyRegexpRulesLow, TooManyRulesLow>>, <<OtherLimitation, TooManyRulesLow>>,
      <<TooManyRulesLow, TooManyRules>> }

\* Rule counts the engine reports for the dynamic rule set in SpecLimits.
RulesCounts == {0, 4000, 32000}

RegexpRulesCounts == {0, 998}

NextLimits ==
    \/ \E n \in RulesCounts, r \in RegexpRulesCounts, l \in LimitationLists :
          ConfigurationResultServiceSet(ConfigurationResult(n, r, l))
    \/ onGetRulesLimits

(***************************************************************************)
(* Engine: start, stop, update and setFilteringState (SpecEngine).         *)
(***************************************************************************)
\* Bound on the Engine calls in progress at the same time.
MaxEngineCalls == 1

\* No Engine call has completed yet.
NoEngineOp == [op |-> "", status |-> "none"]

\* A fresh Engine: the tswebextension is not started and no call is in
\* progress; notes are the notifications of the call that completed last.
InitEngine ==
    [started |-> FALSE, calls |-> {}, last |-> NoEngineOp, notes |-> <<>>]

\* A call of start, stop or update in progress.  via is "setFilteringState"
\* when setFilteringState made the call, isFilteringEnabled is then its
\* argument; pc is "api" while the call waits for the tswebextension and
\* "resume" when the tswebextension has answered with result.
EngineCall(op, via, isFilteringEnabled) ==
    [op |-> op, via |-> via, isFilteringEnabled |-> isFilteringEnabled,
     pc |-> "api", result |-> NoResult]

\* listeners.notifyListeners(listeners.RequestFilterUpdated), called while
\* stored is what configurationResultApi holds: the note tells whether a
\* listener that asks for the rules limits finds a result.
RequestFilterUpdatedNote(stored) ==
    [type |-> "RequestFilterUpdated", ready |-> stored # NoResult]

\* Engine.start(), Engine.stop() or Engine.update() up to the await of the
\* tswebextension (start and update first await getConfiguration()).
EngineBegin(op, via, isFilteringEnabled) ==
    /\ Cardinality(engine.calls) < MaxEngineCalls
    /\ engine' = [engine EXCEPT !.calls = engine.calls \cup
                                  {EngineCall(op, via, isFilteringEnabled)}]
    /\ UNCHANGED <<logVars, tabVars, cacheVars, storeVars, configurationResult, rulesLimits>>

EngineStartCall == EngineBegin("start", "", FALSE)

EngineStopCall == EngineBegin("stop", "", FALSE)

EngineUpdateCall == EngineBegin("update", "", FALSE)

\* Engine.setFilteringState(isFilteringEnabled) up to its await: it calls
\* stop() when the argument is true and start() when it is false.
setFilteringState(isFilteringEnabled) ==
    IF isFilteringEnabled
    THEN EngineBegin("stop", "setFilteringState", isFilteringEnabled)
    ELSE EngineBegin("start", "setFilteringState", isFilteringEnabled)

\* The tswebextension carries out api.start(configuration),
\* api.configure(configuration) or api.stop() and answers; start and
\* configure answer with a configuration result.
EngineApiDone(call, result) ==
    /\ call \in engine.calls
    /\ call.pc = "api"
    /\ engine' = [engine EXCEPT
                    !.started = CASE call.op = "start" -> TRUE
                                  [] call.op = "stop" -> FALSE
                                  [] OTHER -> engine.started,
                    !.calls = (engine.calls \ {call}) \cup
                                 {[call EXCEPT !.pc = "resume",
                                               !.result = IF call.op = "stop"
                                                          THEN NoResult
                                                          ELSE result]}]
    /\ UNCHANGED <<logVars, tabVars, cacheVars, storeVars, configurationResult, rulesLimits>>

\* The tswebextension rejects the call: start, stop or update is rejected
\* with its error, nothing is stored and nobody is notified.
EngineApiFails(call) ==
    /\ call \in engine.calls
    /\ call.pc = "api"
    /\ engine' = [engine EXCEPT
                    !.calls = engine.calls \ {call},
                    !.last = [op |-> IF call.via = "" THEN call.op ELSE call.via,
                              status |-> "rejected"],
                    !.notes = <<>>]
    /\ UNCHANGED <<logVars, tabVars, cacheVars, storeVars, configurationResult, rulesLimits>>

\* The record of a completed Engine call: the operation called, the argument
\* of setFilteringState, and what the call did with the tswebextension.
EngineDone(call) ==
    [op |-> IF call.via = "" THEN call.op ELSE call.via,
     status |-> "resolved",
     isFilteringEnabled |-> call.isFilteringEnabled,
     did |-> call.op]

\* Variant: start and update notify RequestFilterUpdated before they store
\* the configuration result.
EngineResumeNotifyFirst(call) ==
    /\ call \in engine.calls
    /\ call.pc = "resume"
    /\ configurationResult' = IF call.op = "stop" THEN configurationResult ELSE call.result
    /\ engine' = [engine EXCEPT
                    !.calls = engine.calls \ {call},
                    !.last = EngineDone(call),
                    !.notes = <<RequestFilterUpdatedNote(configurationResult)>>]
    /\ UNCHANGED <<logVars, tabVars, cacheVars, storeVars, rulesLimits>>

\* Engine.start(), Engine.update() or Engine.stop() from the await of the
\* tswebextension to the return: start and update hand the result to
\* configurationResultService.set, then all three notify RequestFilterUpdated.
EngineResume(call) ==
    /\ call \in engine.calls
    /\ call.pc = "resume"
    /\ configurationResult' = IF call.op = "stop" THEN configurationResult ELSE call.result
    /\ engine' = [engine EXCEPT
                    !.calls = engine.calls \ {call},
                    !.last = EngineDone(call),
                    !.notes = <<RequestFilterUpdatedNote(configurationResult')>>]
    /\ UNCHANGED <<logVars, tabVars, cacheVars, storeVars, rulesLimits>>

\* Configuration results the tswebextension answers with in SpecEngine.
EngineResults ==
    { ConfigurationResult(0, 0, <<>>),
      ConfigurationResult(32000, 0, <<TooManyRules>>) }

NextEngine ==
    \/ EngineStartCall
    \/ EngineStopCall
    \/ EngineUpdateCall
    \/ \E isFilteringEnabled \in BOOLEAN : setFilteringState(isFilteringEnabled)
    \/ \E call \in engine.calls, result \in EngineResults : EngineApiDone(call, result)
    \/ \E call \in engine.calls : EngineApiFails(call)
    \/ \E call \in engine.calls : EngineResume(call)
    \/ onGetRulesLimits

(***************************************************************************)
(* Initial state: the state after the module's singletons are constructed, *)
(* and the specifications.                                                 *)
(***************************************************************************)
Init ==
    /\ openedFilteringLogsPages = 0
    /\ preserveLogEnabled = FALSE
    /\ tabsInfoMap = InitTabsInfoMap
    /\ filtersCache = [f \in FilterIds |-> NoFilterData]
    /\ debugScriptlets = FALSE
    /\ disableCollectHits \in BOOLEAN
    /\ collectHitStats = ~disableCollectHits
    /\ notified = <<>>
    /\ lastOp = Op("init", 0, NoEvent)
    /\ browserTabs = <<>>
    /\ syncSnapshot = [pc |-> "idle", tabs |-> <<>>]
    /\ filterStore = [f \in FilterIds |-> NoFilterData]
    /\ lookups = {}
    /\ lastRuleText = [filterId |-> 0]
    /\ hybrid = InitHybrid
    /\ records = [k \in StoreKeys |-> Absent]
    /\ conversionMaps = [f \in StoreFilterIds |-> Absent]
    /\ storeCalls = {}
    /\ storeResult = Resolved(StoreCall("init", UserFilterId, <<>>, ""), <<>>, FALSE)
    /\ configurationResult = NoResult
    /\ rulesLimits = NoLimits
    /\ engine = InitEngine

SpecEvents == Init /\ [][NextEvents]_vars

SpecTabs == Init /\ [][NextTabs]_vars

SpecCache == Init /\ [][NextCache]_vars

SpecHybrid == Init /\ [][NextHybrid]_vars

\* FiltersStorage reads none of the filtering log's settings; SpecStore starts
\* with hit collection allowed.
InitStore == Init /\ ~disableCollectHits

SpecStore == InitStore /\ [][NextStore]_vars

SpecLimits == Init /\ [][NextLimits]_vars

SpecViewers == Init /\ [][NextViewers]_vars

SpecEngine == Init /\ [][NextEngine]_vars

(***************************************************************************)
(* Properties of the event store (SpecEvents).                             *)
(***************************************************************************)
EventsOf(t) == tabsInfoMap[t].filteringEvents

Tracked(t) == tabsInfoMap[t] # NoTab

\* C1: addEventData(tabId, event) changes neither the tab map nor any event
\* sequence and notifies nobody when the log is closed or the tab is not
\* tracked; when the log is open and the tab is tracked the event becomes the
\* last element of the tab's sequence, the other tabs are untouched and
\* exactly one LogEventAdded notification is fired.
C1_AddEventDataGuard ==
    [][lastOp'.op = "addEventData" =>
        LET t == lastOp'.tabId
            e == lastOp'.data
            old == tabsInfoMap[t].filteringEvents
            new == tabsInfoMap'[t].filteringEvents
        IN IF ~isOpen \/ tabsInfoMap[t] = NoTab
           THEN /\ tabsInfoMap' = tabsInfoMap
                /\ notified' = <<>>
           ELSE /\ tabsInfoMap'[t] # NoTab
                /\ Len(new) >= 1
                /\ new[Len(new)] = e
                /\ Len(old) < REQUESTS_SIZE_PER_TAB => new = Append(old, e)
                /\ \A u \in AllTabIds \ {t} : tabsInfoMap'[u] = tabsInfoMap[u]
                /\ notified' = <<Note("LogEventAdded", t)>>
    ]_vars

\* C1 witness: addEventData has just been refused for an untracked tab while
\* the log is open and the background tab holds events accepted earlier.
C1_Witness ==
    /\ lastOp.op = "addEventData"
    /\ isOpen
    /\ ~Tracked(lastOp.tabId)
    /\ notified = <<>>
    /\ Len(EventsOf(BACKGROUND_TAB_ID)) > 0

\* C2: no tab ever holds more than REQUESTS_SIZE_PER_TAB events; an
\* addEventData call on a full sequence evicts exactly the event at position 1
\* and keeps the new event as the last element; addEventData never evicts the
\* event at position 0.
C2_BoundedEviction ==
    /\ [](\A t \in AllTabIds : Tracked(t) => Len(EventsOf(t)) <= REQUESTS_SIZE_PER_TAB)
    /\ [][lastOp'.op = "addEventData" /\ isOpen /\ tabsInfoMap[lastOp'.tabId] # NoTab =>
            LET t == lastOp'.tabId
                old == tabsInfoMap[t].filteringEvents
                new == tabsInfoMap'[t].filteringEvents
            IN /\ Len(old) >= 1 => new[1] = old[1]
               /\ Len(old) >= REQUESTS_SIZE_PER_TAB =>
                     new = <<old[1]>> \o SubSeq(old, 3, Len(old)) \o <<lastOp'.data>>
       ]_vars

\* C2 witness: addEventData has just run on a tab that already held
\* REQUESTS_SIZE_PER_TAB events, and the anchor differs from the new event.
C2_Witness ==
    /\ lastOp.op = "addEventData"
    /\ Tracked(lastOp.tabId)
    /\ notified = <<Note("LogEventAdded", lastOp.tabId)>>
    /\ lastOp.size = REQUESTS_SIZE_PER_TAB
    /\ EventsOf(lastOp.tabId)[1] # lastOp.data

\* C16: isExistingCookieEvent(event) is true exactly when the tab of the
\* event is tracked and its sequence holds an event with the same frameDomain,
\* cookieName and cookieValue; it is false for an unknown tab and for a tab
\* without events, and the call leaves the log as it was.
C16_IsExistingCookieEvent ==
    [][lastOp'.op = "isExistingCookieEvent" =>
        LET t == lastOp'.tabId
            c == lastOp'.data
            cookies == IF tabsInfoMap[t] = NoTab
                       THEN {}
                       ELSE {<<e.frameDomain, e.cookieName, e.cookieValue>> :
                                e \in {tabsInfoMap[t].filteringEvents[i] :
                                          i \in 1..Len(tabsInfoMap[t].filteringEvents)}}
        IN /\ c.result <=> (<<c.frameDomain, c.cookieName, c.cookieValue>> \in cookies)
           /\ tabsInfoMap' = tabsInfoMap
           /\ notified' = <<>>
           /\ UNCHANGED <<openedFilteringLogsPages, preserveLogEnabled, filtersCache>>
    ]_vars

\* isExistingCookieEvent has answered false for a cookie whose domain and
\* name, but not value, are those of an event the tab holds.
C16_Witness ==
    /\ lastOp.op = "isExistingCookieEvent"
    /\ ~lastOp.data.result
    /\ Tracked(lastOp.tabId)
    /\ \E i \in 1..Len(EventsOf(lastOp.tabId)) :
          /\ EventsOf(lastOp.tabId)[i].frameDomain = lastOp.data.frameDomain
          /\ EventsOf(lastOp.tabId)[i].cookieName = lastOp.data.cookieName
          /\ EventsOf(lastOp.tabId)[i].cookieValue # lastOp.data.cookieValue

\* C17: updateEventData(tabId, eventId, partial) changes nothing and notifies
\* nobody when the tab is unknown, the log is closed or no event of the tab
\* has the eventId; otherwise it overwrites the fields of partial in the first
\* event with the eventId and leaves the number and order of the events, every
\* other event and every other tab as they were.
C17_UpdateEventData ==
    [][lastOp'.op = "updateEventData" =>
        LET t == lastOp'.tabId
            id == lastOp'.data.eventId
            old == tabsInfoMap[t].filteringEvents
            new == tabsInfoMap'[t].filteringEvents
        IN IF \/ tabsInfoMap[t] = NoTab
              \/ ~isOpen
              \/ ~\E i \in 1..Len(old) : old[i].eventId = id
           THEN /\ tabsInfoMap' = tabsInfoMap
                /\ notified' = <<>>
           ELSE LET first == CHOOSE i \in 1..Len(old) :
                                /\ old[i].eventId = id
                                /\ \A j \in 1..Len(old) : old[j].eventId = id => i <= j
                IN /\ Len(new) = Len(old)
                   /\ \A j \in 1..Len(old) : j # first => new[j] = old[j]
                   /\ new[first].statusCode = lastOp'.data.statusCode
                   /\ \A f \in DOMAIN old[first] \ {"statusCode"} :
                         new[first][f] = old[first][f]
                   /\ tabsInfoMap'[t].title = tabsInfoMap[t].title
                   /\ \A u \in AllTabIds \ {t} : tabsInfoMap'[u] = tabsInfoMap[u]
    ]_vars

\* updateEventData has changed the first of two events with the same eventId
\* and left the second one alone.
C17_Witness ==
    /\ lastOp.op = "updateEventData"
    /\ Tracked(lastOp.tabId)
    /\ Len(EventsOf(lastOp.tabId)) = 2
    /\ EventsOf(lastOp.tabId)[1].eventId = lastOp.data.eventId
    /\ EventsOf(lastOp.tabId)[2].eventId = lastOp.data.eventId
    /\ EventsOf(lastOp.tabId)[1].statusCode = 200
    /\ EventsOf(lastOp.tabId)[2].statusCode = 0

\* C18: clearEventsByTabId(tabId, ignorePreserveLog) empties the sequence of
\* the tab and fires one TabReset exactly when the tab is tracked and
\* preserve-log is off or overridden; otherwise events and notifications stay
\* as they were.  The events of other tabs are never changed.
C18_ClearEventsByTabId ==
    [][lastOp'.op \in {"clearEventsByTabId", "clearEventsByTabId:ignore"} =>
        LET t == lastOp'.tabId
            ignorePreserveLog == lastOp'.op = "clearEventsByTabId:ignore"
        IN /\ IF tabsInfoMap[t] # NoTab /\ (~preserveLogEnabled \/ ignorePreserveLog)
              THEN /\ tabsInfoMap'[t] = [tabsInfoMap[t] EXCEPT !.filteringEvents = <<>>]
                   /\ notified' = <<Note("TabReset", t)>>
              ELSE /\ tabsInfoMap'[t] = tabsInfoMap[t]
                   /\ notified' = <<>>
           /\ \A u \in AllTabIds \ {t} : tabsInfoMap'[u] = tabsInfoMap[u]
           /\ preserveLogEnabled' = preserveLogEnabled
    ]_vars

\* clearEventsByTabId has emptied a tab that held events although
\* preserve-log is on, because the call overrode it; the background tab keeps
\* its events.
C18_Witness ==
    /\ lastOp.op = "clearEventsByTabId:ignore"
    /\ preserveLogEnabled
    /\ lastOp.tabId = 1
    /\ lastOp.size > 0
    /\ EventsOf(1) = <<>>
    /\ notified = <<Note("TabReset", 1)>>
    /\ Len(EventsOf(BACKGROUND_TAB_ID)) > 0

\* C25: no step reorders the events a tab retains.  In every step the new
\* sequence of a tab holds the events of the old one at the same positions
\* (updateEventData changes fields in place), or is empty, or is the old one
\* with the event addEventData accepted appended, from which eviction has
\* removed the element at position 1 and no other.
C25_AppendOrderPreserved ==
    [][\A t \in AllTabIds :
          (tabsInfoMap[t] # NoTab /\ tabsInfoMap'[t] # NoTab)
          => LET old == tabsInfoMap[t].filteringEvents
                 new == tabsInfoMap'[t].filteringEvents
             IN \/ /\ Len(new) = Len(old)
                   /\ \A i \in 1..Len(old) : new[i].eventId = old[i].eventId
                \/ new = <<>>
                \/ /\ lastOp'.op = "addEventData"
                   /\ lastOp'.tabId = t
                   /\ \/ new = Append(old, lastOp'.data)
                      \/ /\ Len(old) >= REQUESTS_SIZE_PER_TAB
                         /\ new = <<old[1]>> \o SubSeq(old, 3, Len(old))
                                      \o <<lastOp'.data>>
    ]_vars

\* addEventData has evicted from a full sequence: the first event, which
\* updateEventData changed earlier, is still first and the event just
\* accepted, another one, is last.
C25_Witness ==
    /\ lastOp.op = "addEventData"
    /\ Tracked(lastOp.tabId)
    /\ lastOp.size = REQUESTS_SIZE_PER_TAB
    /\ Len(EventsOf(lastOp.tabId)) = REQUESTS_SIZE_PER_TAB
    /\ EventsOf(lastOp.tabId)[1].statusCode = 200
    /\ EventsOf(lastOp.tabId)[1].eventId # lastOp.data.eventId
    /\ EventsOf(lastOp.tabId)[Len(EventsOf(lastOp.tabId))] = lastOp.data

(***************************************************************************)
(* Properties of the viewer lifecycle (SpecViewers).                       *)
(***************************************************************************)
\* C23: the engine's debug flags follow the viewer lifecycle.  Opening a log
\* page leaves both flags enabled; a flag is switched off only by a close
\* that brings the viewer count to 0, hit-stat collection only when
\* DisableCollectHits is set; so the scriptlet-debug flag is enabled in every
\* state in which isOpen() is true; and a close that leaves a viewer open
\* changes neither flag nor any event.
C23_DebugFlagsFollowViewers ==
    /\ [](isOpen => debugScriptlets)
    /\ [][lastOp'.op = "onOpenFilteringLogPage"
            => debugScriptlets' /\ collectHitStats']_vars
    /\ [][(debugScriptlets /\ ~debugScriptlets') \/ (collectHitStats /\ ~collectHitStats')
            => /\ lastOp'.op = "onCloseFilteringLogPage"
               /\ openedFilteringLogsPages' = 0
               /\ (collectHitStats /\ ~collectHitStats') => disableCollectHits]_vars
    /\ [][lastOp'.op = "onCloseFilteringLogPage" /\ openedFilteringLogsPages' > 0
            => UNCHANGED <<debugScriptlets, collectHitStats, tabsInfoMap>>]_vars

\* C27: the viewer counter is never negative; an open adds 1 to it, a close
\* takes 1 from it unless it is 0 and then leaves it at 0, and nothing else
\* changes it, so that it counts the opens not yet matched by a close since
\* it last was 0; isOpen() is true exactly when that number is positive.
C27_ViewerCounter ==
    /\ [](openedFilteringLogsPages >= 0)
    /\ [](isOpen <=> openedFilteringLogsPages >= 1)
    /\ [][IF openedFilteringLogsPages' # openedFilteringLogsPages
          THEN \/ /\ lastOp'.op = "onOpenFilteringLogPage"
                  /\ openedFilteringLogsPages' = openedFilteringLogsPages + 1
               \/ /\ lastOp'.op = "onCloseFilteringLogPage"
                  /\ openedFilteringLogsPages >= 1
                  /\ openedFilteringLogsPages' = openedFilteringLogsPages - 1
          ELSE lastOp'.op = "onOpenFilteringLogPage" => lastOp' = lastOp
         ]_vars
    /\ [][lastOp'.op = "onCloseFilteringLogPage" /\ lastOp'.size = 0
            => openedFilteringLogsPages' = 0]_vars

\* A close was called with no viewer open and the counter is 0.
C27_Witness ==
    /\ lastOp.op = "onCloseFilteringLogPage"
    /\ lastOp.size = 0
    /\ openedFilteringLogsPages = 0
    /\ ~isOpen

(***************************************************************************)
(* Properties of the tab bookkeeping (SpecTabs).                           *)
(***************************************************************************)
TrackedIds == {t \in AllTabIds : Tracked(t)}

\* Ids of the tabs of a browser tab list that carry an id, a url and a title.
CompleteTabIds(tabs) ==
    {tabs[i].id : i \in {k \in 1..Len(tabs) :
                            tabs[k].id # 0 /\ tabs[k].url # "" /\ tabs[k].title # ""}}

\* C6: when synchronizeOpenTabs() has completed, the tracked tab ids are the
\* ids of the complete tabs TabsApi.getAll() returned plus the background tab
\* id, so every entry whose tab is no longer open has been removed.
C6_SyncReconciles ==
    lastOp.op = "synchronizeOpenTabs" =>
        TrackedIds = CompleteTabIds(lastOp.data.tabs) \cup {BACKGROUND_TAB_ID}

\* C7: the background tab entry exists in every reachable state; createTabInfo,
\* updateTabInfo and removeTabInfo called with BACKGROUND_TAB_ID leave the tab
\* map unchanged and fire no notification; synchronizeOpenTabs leaves the
\* background entry as it is.
C7_BackgroundTabPermanent ==
    /\ [](tabsInfoMap[BACKGROUND_TAB_ID] # NoTab)
    /\ [][lastOp'.op \in {"createTabInfo", "createTabInfo:synthetic",
                          "updateTabInfo", "removeTabInfo"}
          /\ lastOp'.tabId = BACKGROUND_TAB_ID
            => tabsInfoMap' = tabsInfoMap /\ notified' = <<>>]_vars
    /\ [][lastOp'.op = "synchronizeOpenTabs"
            => tabsInfoMap'[BACKGROUND_TAB_ID] = tabsInfoMap[BACKGROUND_TAB_ID]]_vars

\* C7 witness: removeTabInfo(BACKGROUND_TAB_ID) has just run while another tab
\* is tracked, and the background entry is still there.
C7_Witness ==
    /\ lastOp.op = "removeTabInfo"
    /\ lastOp.tabId = BACKGROUND_TAB_ID
    /\ Tracked(BACKGROUND_TAB_ID)
    /\ Tracked(1)
    /\ notified = <<>>

\* createTabInfo has just run on a tab it registers: the tab is not
\* synthetic and not the background tab.
CreateRegistered ==
    LET tab == lastOp'.data IN
    /\ tabsInfoMap' = [tabsInfoMap EXCEPT ![tab.id] =
                          [tabId |-> tab.id,
                           title |-> tab.title,
                           isExtensionTab |-> (tab.url = "ext"),
                           filteringEvents |-> <<>>]]
    /\ notified' = <<Note("TabAdded", tab.id)>>

CreateNoOp == tabsInfoMap' = tabsInfoMap /\ notified' = <<>>

\* C15 as claimed: createTabInfo registers every tab that is neither the
\* background tab nor synthetic, with an empty event sequence and exactly one
\* TabAdded notification, and does nothing for the background tab id or a
\* synthetic tab.
C15_CreateTabInfoClaimed ==
    [][/\ lastOp'.op = "createTabInfo"
          => IF lastOp'.tabId # BACKGROUND_TAB_ID THEN CreateRegistered ELSE CreateNoOp
       /\ lastOp'.op = "createTabInfo:synthetic" => CreateNoOp]_vars

\* C15 amended: createTabInfo registers a tab that has an id, a url and a
\* title and is neither the background tab nor synthetic, with an empty event
\* sequence and exactly one TabAdded notification; for the background tab
\* id, a synthetic tab, or a tab without id, url or title it does nothing.
C15_CreateTabInfo ==
    [][/\ lastOp'.op = "createTabInfo"
          => IF /\ lastOp'.tabId # BACKGROUND_TAB_ID
                /\ lastOp'.data.id # 0
                /\ lastOp'.data.url # ""
                /\ lastOp'.data.title # ""
             THEN CreateRegistered
             ELSE CreateNoOp
       /\ lastOp'.op = "createTabInfo:synthetic" => CreateNoOp]_vars

\* createTabInfo has registered tab 2 again, with no events, beside tab 1
\* that holds an event.
C15_Witness ==
    /\ lastOp.op = "createTabInfo"
    /\ lastOp.tabId = 2
    /\ notified = <<Note("TabAdded", 2)>>
    /\ Tracked(2) /\ EventsOf(2) = <<>>
    /\ Tracked(1) /\ EventsOf(1) # <<>>

\* The step is one of updateTabInfo: the operation recorded is updateTabInfo on
\* a tab other than the background tab, and the step is not one of the browser.
UpdateTabInfoStep ==
    /\ lastOp'.op = "updateTabInfo"
    /\ lastOp'.tabId # BACKGROUND_TAB_ID
    /\ browserTabs' = browserTabs

\* updateTabInfo has just run on a tracked tab and changed its title and
\* classification only, firing one TabUpdate.
UpdateApplied ==
    LET tab == lastOp'.data IN
    /\ tabsInfoMap' = [tabsInfoMap EXCEPT ![tab.id].title = tab.title,
                                          ![tab.id].isExtensionTab = (tab.url = "ext")]
    /\ notified' = <<Note("TabUpdate", tab.id)>>

\* updateTabInfo has just done what createTabInfo(tab) does in the same state.
UpdateAsCreate ==
    LET r == createTabInfo([tabs |-> tabsInfoMap, notes |-> <<>>], lastOp'.data, FALSE) IN
    /\ tabsInfoMap' = r.tabs
    /\ notified' = r.notes

\* C21 as claimed: updateTabInfo(tab) on a tracked tab other than the
\* background tab changes the title and isExtensionTab of its entry only,
\* keeps its events and fires one TabUpdate; on an untracked tab it does what
\* createTabInfo(tab) does.
C21_UpdateTabInfoClaimed ==
    [][UpdateTabInfoStep
          => IF tabsInfoMap[lastOp'.tabId] # NoTab THEN UpdateApplied ELSE UpdateAsCreate
    ]_vars

\* C21 amended: updateTabInfo(tab) with a tab that has an id, a url and a
\* title, on a tracked tab other than the background tab, changes the title
\* and isExtensionTab of its entry only, keeps its events and fires one
\* TabUpdate; with a tab that lacks one of the three it does nothing; on an
\* untracked tab it does what createTabInfo(tab) does.
C21_UpdateTabInfo ==
    [][UpdateTabInfoStep
          => IF tabsInfoMap[lastOp'.tabId] = NoTab
             THEN UpdateAsCreate
             ELSE IF /\ lastOp'.data.id # 0
                     /\ lastOp'.data.url # ""
                     /\ lastOp'.data.title # ""
             THEN UpdateApplied
             ELSE CreateNoOp
    ]_vars

\* updateTabInfo has retitled tab 1, which keeps the event it held, beside
\* tab 2 that is tracked too.
C21_Witness ==
    /\ lastOp.op = "updateTabInfo"
    /\ lastOp.tabId = 1
    /\ notified = <<Note("TabUpdate", 1)>>
    /\ Tracked(1) /\ EventsOf(1) # <<>>
    /\ tabsInfoMap[1].title = "b" /\ tabsInfoMap[1].isExtensionTab
    /\ Tracked(2)

\* The step is one of removeTabInfo on a tab other than the background tab.
RemoveTabInfoStep ==
    /\ lastOp'.op = "removeTabInfo"
    /\ lastOp'.tabId # BACKGROUND_TAB_ID
    /\ browserTabs' = browserTabs

\* C22: removeTabInfo(id) for an id other than the background tab fires one
\* TabClose exactly when the tab was tracked, and the listeners run while the
\* entry is still registered; afterwards the tab is not tracked and no other
\* entry has changed; an addEventData for that id that follows is a no-op.
C22_RemoveTabInfo ==
    /\ [][RemoveTabInfoStep
            => LET id == lastOp'.tabId IN
               /\ notified' = IF tabsInfoMap[id] # NoTab
                               THEN <<[type |-> "TabClose", tabId |-> id,
                                       registered |-> TRUE]>>
                               ELSE <<>>
               /\ tabsInfoMap'[id] = NoTab
               /\ \A u \in AllTabIds \ {id} : tabsInfoMap'[u] = tabsInfoMap[u]]_vars
    /\ [][/\ lastOp.op = "removeTabInfo" /\ lastOp.tabId # BACKGROUND_TAB_ID
           /\ lastOp'.op = "addEventData" /\ lastOp'.tabId = lastOp.tabId
            => tabsInfoMap' = tabsInfoMap /\ notified' = <<>>]_vars

\* removeTabInfo has closed tab 1, which was tracked, while the log is open
\* and tab 2 keeps its entry and its event.
C22_Witness ==
    /\ lastOp.op = "removeTabInfo"
    /\ lastOp.tabId = 1
    /\ Len(notified) = 1 /\ notified[1].type = "TabClose" /\ notified[1].tabId = 1
    /\ ~Tracked(1)
    /\ isOpen
    /\ Tracked(2) /\ EventsOf(2) # <<>>

\* C29: a tab closed through removeTabInfo while synchronizeOpenTabs is
\* suspended on TabsApi.getAll() is not registered again by that
\* synchronization.  On the step that completes the synchronization, when the
\* last call before it was a removeTabInfo that fired TabClose (so the tab
\* was tracked, and it was removed after the snapshot was taken), that tab has
\* no entry afterwards; and every tab tracked before and after the step keeps
\* its events.
C29_NoReRegistration ==
    [][(syncSnapshot.pc = "waiting" /\ syncSnapshot'.pc = "idle")
       => /\ (lastOp.op = "removeTabInfo" /\ notified # <<>>)
             => tabsInfoMap'[lastOp.tabId] = NoTab
          /\ \A t \in AllTabIds :
                (tabsInfoMap[t] # NoTab /\ tabsInfoMap'[t] # NoTab)
                => tabsInfoMap'[t].filteringEvents = tabsInfoMap[t].filteringEvents]_vars

(***************************************************************************)
(* Properties of the rule-text cache (SpecCache).                          *)
(***************************************************************************)
NoEventsRetained ==
    \A t \in AllTabIds : Tracked(t) => EventsOf(t) = <<>>

CacheEmpty == \A f \in FilterIds : filtersCache[f] = NoFilterData

\* C3: a close that brings the viewer count to 0 clears the event sequence of
\* every tracked tab and empties the rule-text cache, and a getRuleText call
\* issued once the log has been reopened goes to the filter store instead of
\* being answered from the cache.
C3_CloseClearsThenRefetch ==
    [][/\ lastOp'.op = "onCloseFilteringLogPage" /\ openedFilteringLogsPages' = 0
            => NoEventsRetained' /\ CacheEmpty'
       /\ lastOp.op = "onOpenFilteringLogPage" /\ openedFilteringLogsPages = 1
          /\ lastOp'.op = "getRuleText"
            => lastRuleText'.fetched
    ]_vars

\* C4: every change of a filter's stored content being reported with
\* onFiltersChanged, a getRuleText call answered from the cache while the log
\* is open uses the filter's current stored data.
C4_NoStaleRuleText ==
    lastOp.op = "getRuleText" /\ isOpen /\ ~lastRuleText.fetched
        => lastRuleText.filterData = filterStore[lastRuleText.filterId]

\* C5: while the log is closed no tab retains a filtering event and the
\* rule-text cache is empty.
C5_ClosedHoldsNothing ==
    ~isOpen => NoEventsRetained /\ CacheEmpty

\* The last getRuleText call resolved an offset of its filter data: the
\* filter has a source map, the rule index is in it and the line has text.
OffsetResolved ==
    /\ lastRuleText.filterId # 0
    /\ lastRuleText.filterData # NoFilterData
    /\ lastRuleText.filterData.hasSourceMap
    /\ lastRuleText.ruleIndex \in DOMAIN lastRuleText.filterData.sourceMap
    /\ lastRuleText.filterData.sourceMap[lastRuleText.ruleIndex]
          \in DOMAIN lastRuleText.filterData.rawFilterList

\* C13: when getRuleText resolves an offset, its result carries the rule text
\* of that line, and it carries a defined appliedRuleText exactly when the
\* conversion map has an entry for that offset.
C13_AppliedRuleText ==
    OffsetResolved
    => LET data == lastRuleText.filterData
           offset == data.sourceMap[lastRuleText.ruleIndex]
           result == lastRuleText.result
       IN /\ result.kind = "RuleText"
          /\ result.ruleText = data.rawFilterList[offset]
          /\ IF offset \in DOMAIN data.conversionMap
             THEN result.hasApplied /\ result.appliedRuleText # Undefined
             ELSE ~result.hasApplied

\* C14: getRuleText never raises: whatever the filter store does, every
\* completed call resolved to a RuleText or to null.
C14_GetRuleTextNeverRaises ==
    lastRuleText.filterId # 0 => lastRuleText.result.kind \in {"RuleText", "null"}

\* C26: a getRuleText call that was suspended on the filter store while
\* onFiltersChanged purged its filter leaves no data from before the change in
\* the cache: when the call resumes right after the purge, holding data that
\* is no longer what the filter store holds, it does not cache that data.
C26_ResumeAfterPurge ==
    [][\A l \in lookups :
          (/\ l.pc = "loaded" /\ l \notin lookups'
           /\ lastOp.op = "onFiltersChanged" /\ isOpen
           /\ filtersCache[l.filterId] = NoFilterData
           /\ l.filterData # NoFilterData
           /\ l.filterData # filterStore[l.filterId])
          => filtersCache'[l.filterId] # l.filterData]_vars

(***************************************************************************)
(* Properties of the backend selection (SpecHybrid).                       *)
(***************************************************************************)
\* C8: on one HybridStorage instance the IndexedDB probe runs at most once
\* and every operation is served by one and the same backend instance, also
\* when several calls start before the first probe has resolved.
C8_BackendSelectedOnce ==
    /\ hybrid.probes <= 1
    /\ Cardinality(hybrid.served) <= 1

(***************************************************************************)
(* Properties of FiltersStorage (SpecStore).                               *)
(***************************************************************************)
\* The key of the original user rules.
OriginalUserRulesKey == getFilterKey(UserFilterId, TRUE)

\* C9: FiltersStorage.set is all-or-nothing.  A step that completes a set
\* call either writes every record of the call in one bulk write or writes
\* none; and when the bulk write was not committed, the promise of set is
\* rejected and neither the records nor the in-memory conversion maps differ
\* from before.
C9_SetAllOrNothing ==
    [][\A call \in storeCalls :
          (call.op = "set" /\ storeCalls' = storeCalls \ {call} /\ storeResult'.op = "set")
          => LET data == prepareFilterForStorage(call.filterId, call.filter) IN
             /\ \/ records' = records
                \/ \A k \in DOMAIN records' :
                      records'[k] = IF k \in DOMAIN data THEN Stored(data[k]) ELSE records[k]
             /\ ~storeResult'.committed
                => /\ storeResult'.status = "rejected"
                   /\ records' = records
                   /\ conversionMaps' = conversionMaps]_vars

\* C10: a set of the user rules whose bulk write was committed leaves the
\* original-rules record equal to the lines handed to set, in their order; a
\* set of another filter leaves that record as it was; getOriginalUserRules
\* resolves to the lines of the record, and to the empty sequence when there
\* is no record.
C10_OriginalUserRulesVerbatim ==
    [][/\ \A call \in storeCalls :
             (call.op = "set" /\ storeCalls' = storeCalls \ {call} /\ storeResult'.op = "set")
             => IF call.filterId = UserFilterId
                THEN storeResult'.committed
                     => ParseOriginalUserRules(records'[OriginalUserRulesKey]) = call.filter
                ELSE records'[OriginalUserRulesKey] = records[OriginalUserRulesKey]
       /\ \A call \in storeCalls :
             (call.op = "getOriginalUserRules" /\ storeCalls' = storeCalls \ {call})
             => /\ storeResult'.op = "getOriginalUserRules"
                /\ storeResult'.status = "resolved"
                /\ storeResult'.value =
                      IF records[OriginalUserRulesKey].present
                      THEN records[OriginalUserRulesKey].value
                      ELSE <<>>]_vars

\* getOriginalUserRules has returned two lines in their order although both
\* were converted to the same rule.
C10_Witness ==
    /\ storeResult.op = "getOriginalUserRules"
    /\ storeResult.value = <<"abp-a", "abp-b">>
    /\ records[getFilterKey(UserFilterId, FALSE)] = Stored(<<"adg-x", "adg-x">>)
    /\ records[getFilterKey(1, FALSE)].present

\* A remove call takes a step: it starts, deletes a record, or returns.
RemoveStep(call) ==
    /\ call.op = "remove"
    /\ \/ call \in storeCalls' \ storeCalls
       \/ call \in storeCalls \ storeCalls'

C12_GetValidates ==
    [][/\ \A call \in storeCalls :
             (call.op = "get" /\ call.pc = "conversionMap" /\ call \notin storeCalls')
             => /\ storeResult'.op = "get"
                /\ storeResult'.filterId = call.filterId
                /\ IF call.data.present /\ call.data # Malformed
                   THEN /\ storeResult'.status = "resolved"
                        /\ storeResult'.value = call.data.value
                   ELSE /\ storeResult'.status = "rejected"
                        /\ storeResult'.value = "ValidationError"
       /\ \A call \in storeCalls :
             (call.op = "set" /\ call \notin storeCalls' /\ storeResult'.op = "set"
                 /\ storeResult'.committed)
             => records'[getFilterKey(call.filterId, FALSE)] =
                   Stored(convertFilter(call.filter).filter)]_vars

\* get was rejected because the stored value is not an array of strings.
C12_Witness ==
    /\ storeResult.op = "get"
    /\ storeResult.status = "rejected"
    /\ records[getFilterKey(storeResult.filterId, FALSE)] = Malformed

\* Converted rules looked up in SpecStore.
StoreRules == {"adg", "adg-s1", "adg-s2", "adg-x"}

\* What the conversion map persisted for a filter holds for a rule.
PersistedOriginalRuleText(filterId, rule) ==
    LET data == records[getConversionMapKey(filterId)] IN
    IF data.present THEN Lookup(data.value, rule) ELSE Undefined

\* C28: the in-memory conversion maps agree with the storage.  Whenever no
\* call is in progress, getOriginalRuleText(F, rule) of a filter F that has a
\* cache entry is what the persisted conversion map of F holds for the rule,
\* and when the call completed last is remove(F) it is undefined for every
\* rule.
C28_ConversionMapCacheAgrees ==
    storeCalls = {}
    => /\ \A f \in StoreFilterIds :
             conversionMaps[f].present
             => \A rule \in StoreRules :
                   getOriginalRuleText(f, rule) = PersistedOriginalRuleText(f, rule)
       /\ storeResult.op = "remove"
          => \A rule \in StoreRules :
                getOriginalRuleText(storeResult.filterId, rule) = Undefined

(***************************************************************************)
(* Properties of the rule-limit accounting (SpecLimits).                   *)
(***************************************************************************)
\* The limitations of the result the last onGetRulesLimits call read.
LimitationsRead == rulesLimits.result.dynamicRules.limitations

\* The errors of a class among the limitations read, in their order.
ErrorsRead(type) == SelectSeq(LimitationsRead, LAMBDA e : e.type = type)

\* C19: userRulesEnabledCount is the numberOfMaximumRules of the
\* TooManyRulesError among the limitations of the dynamic rules when there
\* is one, whatever rule count the engine reports, and the rule count of the
\* dynamic rule set when there is none.
C19_UserRulesEnabledCount ==
    rulesLimits.status = "resolved"
    => LET errors == ErrorsRead("TooManyRulesError") IN
       rulesLimits.userRulesEnabledCount =
          IF errors # <<>>
          THEN errors[1].numberOfMaximumRules
          ELSE rulesLimits.result.dynamicRules.ruleSet.rulesCount

\* The cap of 30000 was reported although the engine counts 32000 rules.
C19_Witness ==
    /\ rulesLimits.status = "resolved"
    /\ rulesLimits.result.dynamicRules.ruleSet.rulesCount = 32000
    /\ ErrorsRead("TooManyRulesError") # <<>>
    /\ rulesLimits.userRulesEnabledCount = 30000

\* C20: the maximum reported for user rules, and the one for user regexp
\* rules, is the numberOfMaximumRules of the limitation error of its class
\* when that error is among the limitations, and the platform constant only
\* when it is not.
C20_UserRulesMaximumCount ==
    rulesLimits.status = "resolved"
    => LET rules == ErrorsRead("TooManyRulesError")
           regexps == ErrorsRead("TooManyRegexpRulesError")
       IN /\ rulesLimits.userRulesMaximumCount =
                IF rules # <<>>
                THEN rules[1].numberOfMaximumRules
                ELSE MAX_NUMBER_OF_DYNAMIC_AND_SESSION_RULES
          /\ rulesLimits.userRulesRegexpsMaximumCount =
                IF regexps # <<>>
                THEN regexps[1].numberOfMaximumRules
                ELSE MAX_NUMBER_OF_REGEX_RULES

\* Both maxima were taken from errors and both are below the platform
\* constants.
C20_Witness ==
    /\ rulesLimits.status = "resolved"
    /\ rulesLimits.userRulesMaximumCount = 4500
    /\ rulesLimits.userRulesRegexpsMaximumCount = 500
    /\ configurationResult = rulesLimits.result

(***************************************************************************)
(* Properties of the Engine (SpecEngine).                                  *)
(***************************************************************************)
\* C24: when setFilteringState(isFilteringEnabled) has completed, what it did
\* with the filtering engine is what its argument says: it started the engine
\* for true and stopped it for false.
C24_SetFilteringState ==
    engine.last.op = "setFilteringState" /\ engine.last.status = "resolved"
    => engine.last.did = IF engine.last.isFilteringEnabled THEN "start" ELSE "stop"

\* The step is a call of onGetRulesLimits: of the steps of SpecEngine it is
\* the only one that leaves the Engine and the stored result alone.
OnGetRulesLimitsStep ==
    engine' = engine /\ configurationResult' = configurationResult

\* C30: onGetRulesLimits fails with 'result should be ready' exactly when no
\* configuration result has been stored; start and update store the result of
\* the engine before they notify RequestFilterUpdated, so the listeners find
\* it; and a stored result is never taken away, not by stop either, so after
\* the first completed start or update the request never fails that way.
C30_ResultReady ==
    /\ [][OnGetRulesLimitsStep
            => IF configurationResult = NoResult
               THEN rulesLimits' = [status |-> "rejected",
                                    error |-> "result should be ready"]
               ELSE rulesLimits'.status = "resolved"]_vars
    /\ [][\A call \in engine.calls :
              (call.pc = "resume" /\ call \notin engine'.calls /\ call.op # "stop")
              => /\ configurationResult' = call.result
                 /\ configurationResult' # NoResult
                 /\ engine'.notes = <<[type |-> "RequestFilterUpdated", ready |-> TRUE]>>]_vars
    /\ [][configurationResult # NoResult => configurationResult' # NoResult]_vars

\* The rules limits were served from the stored result while the engine is
\* stopped, the call completed last being a stop.
C30_Witness ==
    /\ engine.last.op = "stop"
    /\ engine.last.status = "resolved"
    /\ ~engine.started
    /\ engine.calls = {}
    /\ rulesLimits.status = "resolved"
    /\ rulesLimits.result = configurationResult

=============================================================================
